---- MODULE Spec2Model ----
(***************************************************************************)
(* Model of the ABAC engine: the policy expression evaluator (rule.rs),    *)
(* the permission bitset (permission.rs) and the resource hierarchy with   *)
(* its insertion and decision walk (resource.rs).                          *)
(*                                                                         *)
(* A Rust String is a sequence of one-character strings, so that           *)
(* starts_with, slicing and the scalar parsers are modelled by what they   *)
(* do to the characters.  Option<T> is [some |-> FALSE] or                 *)
(* [some |-> TRUE, v |-> x]; Result<T, E> is [ok |-> TRUE, v |-> x] or     *)
(* [ok |-> FALSE, e |-> err].                                              *)
(***************************************************************************)
EXTENDS Integers, Sequences, FiniteSets, TLC

VARIABLES root, ninserts, inserted, request, decision, value, permission,
          rule, context, evaluated, source, parsed, config, order, calls

vars == <<root, ninserts, inserted, request, decision, value, permission,
          rule, context, evaluated, source, parsed, config, order, calls>>

\* The text handed to a from_str and what it returned.
texts == <<source, parsed>>

\* The entries of a configuration and those inserted so far, in order.
building == <<config, order>>

(***************************************************************************)
(* Option and Result                                                       *)
(***************************************************************************)
None == [some |-> FALSE]

Some(x) == [some |-> TRUE, v |-> x]

Ok(x) == [ok |-> TRUE, v |-> x]

Err(x) == [ok |-> FALSE, e |-> x]

(***************************************************************************)
(* rule.rs: the Rule enum.  Float carries a decimal m * 10^e in normal     *)
(* form, or an infinity or a NaN; the literals of this model have fewer    *)
(* significant digits than an f32 holds, so distinct decimals are distinct *)
(* f32 values.                                                             *)
(***************************************************************************)
String(s) == [tag |-> "String", s |-> s]

Bool(b) == [tag |-> "Bool", b |-> b]

Integer(i) == [tag |-> "Integer", i |-> i]

Float(f) == [tag |-> "Float", f |-> f]

If(s) == [tag |-> "If", s |-> s]

And(s) == [tag |-> "And", s |-> s]

Or(s) == [tag |-> "Or", s |-> s]

Eq(s) == [tag |-> "Eq", s |-> s]

In(s) == [tag |-> "In", s |-> s]

List(s) == [tag |-> "List", s |-> s]

Tuple(items) == [tag |-> "Tuple", items |-> items]

\* f32 == : a NaN is equal to nothing, itself included; -0.0 == 0.0 because
\* both are the decimal 0 * 10^0.
F32Eq(l, r) == l.k # "nan" /\ r.k # "nan" /\ l = r

\* #[derive(PartialEq)] on Rule: same variant and equal payload.
RECURSIVE RuleEq(_, _)
RuleEq(a, b) ==
    /\ a.tag = b.tag
    /\ CASE a.tag = "Float" -> F32Eq(a.f, b.f)
         [] a.tag = "Tuple" ->
              /\ Len(a.items) = Len(b.items)
              /\ \A i \in 1..Len(a.items) : RuleEq(a.items[i], b.items[i])
         [] OTHER -> a = b

(***************************************************************************)
(* rule.rs: the error enum (RuleError in resource.rs).                     *)
(***************************************************************************)
CannotParse(s) == [kind |-> "CannotParse", s |-> s]

CannotCompare(l, r) == [kind |-> "CannotCompare", l |-> l, r |-> r]

InvalidIfStatement(r) == [kind |-> "InvalidIfStatement", r |-> r]

InvalidIfCondition(r) == [kind |-> "InvalidIfCondition", r |-> r]

InvalidEqStatement(r) == [kind |-> "InvalidEqStatement", r |-> r]

InvalidOrStatement(r) == [kind |-> "InvalidOrStatement", r |-> r]

InvalidAndStatement(r) == [kind |-> "InvalidAndStatement", r |-> r]

InvalidInStatement(r) == [kind |-> "InvalidInStatement", r |-> r]

KeyNotInContext(k) == [kind |-> "KeyNotInContext", k |-> k]

(***************************************************************************)
(* str::parse::<i32>, ::<f32>, ::<bool> as Rule::from_literal uses them.   *)
(***************************************************************************)
Digits == <<"0", "1", "2", "3", "4", "5", "6", "7", "8", "9">>

IsDigit(c) == \E i \in 1..10 : Digits[i] = c

DigitVal(c) == (CHOOSE i \in 1..10 : Digits[i] = c) - 1

AllDigits(s) == \A i \in 1..Len(s) : IsDigit(s[i])

RECURSIVE DecVal(_)
DecVal(s) ==
    IF s = <<>> THEN 0
    ELSE 10 * DecVal(SubSeq(s, 1, Len(s) - 1)) + DigitVal(s[Len(s)])

HasSign(s) == s # <<>> /\ s[1] \in {"+", "-"}

StripSign(s) == IF HasSign(s) THEN Tail(s) ELSE s

Signed(s, n) == IF s # <<>> /\ s[1] = "-" THEN 0 - n ELSE n

\* The index of the first character of s that is in cs, 0 when there is none.
IndexOf(s, cs) ==
    IF \E i \in 1..Len(s) : s[i] \in cs
    THEN CHOOSE i \in 1..Len(s) :
            s[i] \in cs /\ \A j \in 1..(i - 1) : s[j] \notin cs
    ELSE 0

\* i32::from_str: an optional sign, then one or more decimal digits.  Digit
\* strings of ten or more characters are treated as out of range.
ParseI32(s) ==
    LET d == StripSign(s) IN
    IF d # <<>> /\ AllDigits(d) /\ Len(d) < 10
    THEN Ok(Signed(s, DecVal(d)))
    ELSE Err("ParseIntError")

LowerCase(c) ==
    CASE c = "I" -> "i" [] c = "N" -> "n" [] c = "F" -> "f"
      [] c = "T" -> "t" [] c = "Y" -> "y" [] c = "A" -> "a"
      [] OTHER -> c

Lower(s) == [i \in 1..Len(s) |-> LowerCase(s[i])]

RECURSIVE Normal(_, _)
Normal(m, e) ==
    IF m = 0 THEN [k |-> "num", m |-> 0, e |-> 0]
    ELSE IF m % 10 = 0 THEN Normal(m \div 10, e + 1)
    ELSE [k |-> "num", m |-> m, e |-> e]

\* f32::from_str: [sign] (inf | infinity | nan | digits [. digits] [exp]),
\* with at least one digit in the mantissa and in a present exponent.
ParseF32(s) ==
    LET u == StripSign(s)
        x == IndexOf(u, {"e", "E"})
        mant == IF x = 0 THEN u ELSE SubSeq(u, 1, x - 1)
        expo == IF x = 0 THEN <<>> ELSE SubSeq(u, x + 1, Len(u))
        p == IndexOf(mant, {"."})
        int == IF p = 0 THEN mant ELSE SubSeq(mant, 1, p - 1)
        frac == IF p = 0 THEN <<>> ELSE SubSeq(mant, p + 1, Len(mant))
        ed == StripSign(expo)
    IN  IF Lower(u) \in {<<"i", "n", "f">>,
                         <<"i", "n", "f", "i", "n", "i", "t", "y">>}
        THEN Ok([k |-> "inf", m |-> Signed(s, 1), e |-> 0])
        ELSE IF Lower(u) = <<"n", "a", "n">>
        THEN Ok([k |-> "nan", m |-> 0, e |-> 0])
        ELSE IF /\ AllDigits(int) /\ AllDigits(frac)
                /\ Len(int) + Len(frac) > 0
                /\ Len(int) + Len(frac) < 10
                /\ (x # 0 => ed # <<>> /\ AllDigits(ed) /\ Len(ed) < 3)
        THEN Ok(Normal(Signed(s, DecVal(int \o frac)),
                       Signed(expo, DecVal(ed)) - Len(frac)))
        ELSE Err("ParseFloatError")

\* bool::from_str accepts exactly "true" and "false".
ParseBool(s) ==
    IF s = <<"t", "r", "u", "e">> THEN Ok(TRUE)
    ELSE IF s = <<"f", "a", "l", "s", "e">> THEN Ok(FALSE)
    ELSE Err("ParseBoolError")

\* Rule::from_literal: integer, then float, then bool, then string.
from_literal(s) ==
    IF ParseI32(s).ok THEN Ok(Integer(ParseI32(s).v))
    ELSE IF ParseF32(s).ok THEN Ok(Float(ParseF32(s).v))
    ELSE IF ParseBool(s).ok THEN Ok(Bool(ParseBool(s).v))
    ELSE Ok(String(s))

(***************************************************************************)
(* rule.rs: parse_rule, one scan over the characters with a stack of       *)
(* tuples under construction and a buffer for the token being read.        *)
(***************************************************************************)
\* The node a token becomes: a scalar by from_literal, an operator when it is
\* the first child of its tuple, a string otherwise.
token_node(buffer, children) ==
    IF ParseI32(buffer).ok \/ ParseF32(buffer).ok \/ ParseBool(buffer).ok
    THEN from_literal(buffer).v
    ELSE IF children = <<>>
    THEN CASE buffer = <<"i", "f">> -> If(buffer)
           [] buffer = <<"e", "q">> -> Eq(buffer)
           [] buffer = <<"l", "i", "s", "t">> -> List(buffer)
           [] buffer = <<"a", "n", "d">> -> And(buffer)
           [] buffer = <<"o", "r">> -> Or(buffer)
           [] buffer = <<"i", "n">> -> In(buffer)
           [] OTHER -> String(buffer)
    ELSE String(buffer)

\* What the scan holds between two characters.
Scan(buffer, stack) == [buffer |-> buffer, stack |-> stack]

\* The closure flush_buffer: a non-empty buffer becomes the next child of
\* the tuple on top of the stack.
flush_buffer(buffer, stack, rule_text) ==
    IF buffer = <<>> THEN Ok(Scan(buffer, stack))
    ELSE IF stack = <<>> THEN Err(CannotParse(rule_text))
    ELSE LET parent == stack[Len(stack)] IN
         IF parent.tag # "Tuple" THEN Err(CannotParse(rule_text))
         ELSE LET node == token_node(buffer, parent.items) IN
              Ok(Scan(<<>>, [stack EXCEPT ![Len(stack)] =
                                      Tuple(Append(parent.items, node))]))

\* if let Rule::Tuple(children) = parent { children.push(node) }
push_child(parent, node) ==
    IF parent.tag = "Tuple" THEN Tuple(Append(parent.items, node)) ELSE parent

\* The arm of ')': the tuple on top of the stack is closed and becomes the
\* next child of the tuple under it.
close_tuple(stack, rule_text) ==
    IF Len(stack) < 2 THEN Err(CannotParse(rule_text))
    ELSE Ok(Scan(<<>>,
                 Append(SubSeq(stack, 1, Len(stack) - 2),
                        push_child(stack[Len(stack) - 1],
                                   stack[Len(stack)]))))

\* The arms of '(', ')' and ' ' once the buffer is flushed.
after_flush(c, flushed, rule_text) ==
    IF ~flushed.ok THEN flushed
    ELSE IF c = "(" THEN Ok(Scan(<<>>, Append(flushed.v.stack, Tuple(<<>>))))
    ELSE IF c = " " THEN flushed
    ELSE close_tuple(flushed.v.stack, rule_text)

\* One turn of the loop over the characters.
scan_char(c, buffer, stack, rule_text) ==
    IF c \in {"(", ")", " "}
    THEN after_flush(c, flush_buffer(buffer, stack, rule_text), rule_text)
    ELSE Ok(Scan(Append(buffer, c), stack))

\* The loop over the characters from the i-th on.  The result of a turn is
\* bound by a set constructor so that it is computed once per turn.
RECURSIVE scan_from(_, _, _, _)
scan_from(i, buffer, stack, rule_text) ==
    IF i > Len(rule_text) THEN Ok(Scan(buffer, stack))
    ELSE CHOOSE scanned \in
            { IF ~step.ok THEN step
              ELSE scan_from(i + 1, step.v.buffer, step.v.stack, rule_text) :
                step \in {scan_char(rule_text[i], buffer, stack, rule_text)} } :
            TRUE

\* After the last character: the top of the stack is popped and its last
\* child returned; the buffer is not flushed.
pop_result(stack, rule_text) ==
    IF stack = <<>> THEN Err(CannotParse(rule_text))
    ELSE IF stack[Len(stack)].tag = "Tuple" /\ stack[Len(stack)].items # <<>>
    THEN Ok(stack[Len(stack)].items[Len(stack[Len(stack)].items)])
    ELSE Err(CannotParse(rule_text))

\* The end of parse_rule on what the loop returned.
after_scan(scanned, rule_text) ==
    IF ~scanned.ok THEN scanned ELSE pop_result(scanned.v.stack, rule_text)

parse_rule(rule_text) ==
    after_scan(scan_from(1, <<>>, <<Tuple(<<>>)>>, rule_text), rule_text)

\* impl FromStr for Rule
Rule_from_str(s) == parse_rule(s)

(***************************************************************************)
(* rule.rs: Context, an ordered Vec of (key, value) pairs, here records    *)
(* [k |-> key, v |-> value].                                               *)
(***************************************************************************)
starts_with(s, c) == s # <<>> /\ s[1] = c

RECURSIVE trim_start_matches(_, _)
trim_start_matches(s, c) ==
    IF starts_with(s, c) THEN trim_start_matches(Tail(s), c) ELSE s

\* A faulty find: the last pair with that key.
find_last(ctx, key) ==
    IF \E i \in 1..Len(ctx) : ctx[i].k = key
    THEN Some(ctx[CHOOSE i \in 1..Len(ctx) :
                    ctx[i].k = key /\ \A j \in (i + 1)..Len(ctx) :
                                        ctx[j].k # key].v)
    ELSE None

\* context.0.iter().find(|(k, _)| k == key): the first pair with that key.
find(ctx, key) ==
    IF \E i \in 1..Len(ctx) : ctx[i].k = key
    THEN Some(ctx[CHOOSE i \in 1..Len(ctx) :
                    ctx[i].k = key /\ \A j \in 1..(i - 1) : ctx[j].k # key].v)
    ELSE None

\* Context::get, called by is_allowed for a parametric segment: the value of
\* the first pair with that key, or KeyNotInContext(key).
Context_get(ctx, key) ==
    IF find(ctx, key).some THEN Ok(find(ctx, key).v)
    ELSE Err(KeyNotInContext(key))

\* One pair of Context::from_str: the value is from_literal of its text.
Binding(k, text) == [k |-> k, v |-> from_literal(text).v]

\* str::split(c): the pieces between the occurrences of c, at least one.
RECURSIVE split(_, _)
split(s, c) ==
    LET i == IndexOf(s, {c}) IN
    IF i = 0 THEN <<s>>
    ELSE <<SubSeq(s, 1, i - 1)>> \o split(SubSeq(s, i + 1, Len(s)), c)

\* The loop of Context::from_str over the pieces between commas: of each
\* piece that is not empty, the text before the first ':' is the key and the
\* text between the first ':' and the next one, or the end, is the value.
RECURSIVE context_pairs(_, _, _)
context_pairs(pieces, context_so_far, s) ==
    IF pieces = <<>> THEN Ok(context_so_far)
    ELSE LET pair == Head(pieces)
             iter == split(pair, ":")
         IN IF pair = <<>> THEN context_pairs(Tail(pieces), context_so_far, s)
            ELSE IF Len(iter) < 2 THEN Err(CannotParse(s))
            ELSE context_pairs(Tail(pieces),
                               Append(context_so_far,
                                      Binding(iter[1], iter[2])),
                               s)

\* impl FromStr for Context
Context_from_str(s) == context_pairs(split(s, ","), <<>>, s)

(***************************************************************************)
(* rule.rs: Rule::eval.                                                    *)
(***************************************************************************)
IsScalar(r) == r.tag \in {"String", "Integer", "Float", "Bool"}

\* The match of the Eq arm on (left, right).
eq_match(l, r) ==
    IF l.tag = "String" /\ r.tag = "String" THEN Ok(Bool(l.s = r.s))
    ELSE IF l.tag = "Integer" /\ r.tag = "Integer" THEN Ok(Bool(l.i = r.i))
    ELSE IF l.tag = "Float" /\ r.tag = "Float" THEN Ok(Bool(F32Eq(l.f, r.f)))
    ELSE IF l.tag = "Bool" /\ r.tag = "Bool" THEN Ok(Bool(l.b = r.b))
    ELSE Err(CannotCompare(l, r))

\* A faulty contains: only the first element is compared.
contains_first(items, x) == items # <<>> /\ RuleEq(items[1], x)

\* Vec::contains(&x): some element == x.
contains(items, x) == \E i \in 1..Len(items) : RuleEq(items[i], x)

RECURSIVE eval(_, _)
RECURSIVE eval_list(_, _)

\* children.iter().map(|child| child.eval(context)).collect::<Result<..>>():
\* the values in order, or the first error.
eval_list(children, ctx) ==
    IF children = <<>> THEN Ok(<<>>)
    ELSE LET h == eval(Head(children), ctx) IN
         IF ~h.ok THEN h
         ELSE LET t == eval_list(Tail(children), ctx) IN
              IF ~t.ok THEN t ELSE Ok(<<h.v>> \o t.v)

\* The arms that take two operands: both are evaluated, left first, and
\* then matched.
eval_binary(self, ctx, arity_error) ==
    LET children == self.items IN
    IF Len(children) # 3 THEN Err(arity_error)
    ELSE LET left == eval(children[2], ctx) IN
         IF ~left.ok THEN left
         ELSE LET right == eval(children[3], ctx) IN
              IF ~right.ok THEN right
              ELSE LET l == left.v
                       r == right.v
                   IN CASE children[1].tag = "Eq" -> eq_match(l, r)
                        [] children[1].tag = "And" ->
                             IF l.tag = "Bool" /\ r.tag = "Bool"
                             THEN Ok(Bool(l.b /\ r.b))
                             ELSE Err(CannotCompare(l, r))
                        [] children[1].tag = "Or" ->
                             IF l.tag = "Bool" /\ r.tag = "Bool"
                             THEN Ok(Bool(l.b \/ r.b))
                             ELSE Err(CannotCompare(l, r))
                        [] children[1].tag = "In" ->
                             IF IsScalar(l) /\ r.tag = "Tuple"
                             THEN Ok(Bool(contains(r.items, l)))
                             ELSE Err(arity_error)

\* A faulty eval_if: only the branch the condition selects is evaluated.
eval_if_selected(self, ctx) ==
    LET children == self.items IN
    IF Len(children) # 4 THEN Err(InvalidIfStatement(self))
    ELSE LET condition == eval(children[2], ctx) IN
         IF ~condition.ok THEN condition
         ELSE IF condition.v = Bool(FALSE) THEN eval(children[4], ctx)
         ELSE IF condition.v = Bool(TRUE) THEN eval(children[3], ctx)
         ELSE Err(InvalidIfCondition(condition.v))

\* The If arm: the condition and both branches are evaluated, then one
\* branch is chosen.
eval_if(self, ctx) ==
    LET children == self.items IN
    IF Len(children) # 4 THEN Err(InvalidIfStatement(self))
    ELSE LET condition == eval(children[2], ctx) IN
         IF ~condition.ok THEN condition
         ELSE LET then == eval(children[3], ctx) IN
              IF ~then.ok THEN then
              ELSE LET otherwise == eval(children[4], ctx) IN
                   IF ~otherwise.ok THEN otherwise
                   ELSE IF condition.v = Bool(FALSE) THEN otherwise
                   ELSE IF condition.v = Bool(TRUE) THEN then
                   ELSE Err(InvalidIfCondition(condition.v))

\* A faulty eval_data: a tuple without an operator head is a value and
\* evaluates to itself, as the scalars do.
eval_data_itself(self) == Ok(self)

\* The arm of a tuple whose first child is no operator (or that is empty).
eval_data(self) == Ok(Tuple(<<>>))

eval(self, ctx) ==
    CASE self.tag = "Tuple" ->
           LET children == self.items
               first == IF children = <<>> THEN "none" ELSE children[1].tag
           IN CASE first = "If" -> eval_if(self, ctx)
                [] first = "Eq" ->
                     eval_binary(self, ctx, InvalidEqStatement(self))
                [] first = "List" ->
                     LET vs == eval_list(Tail(children), ctx) IN
                     IF ~vs.ok THEN vs ELSE Ok(Tuple(vs.v))
                [] first = "And" ->
                     eval_binary(self, ctx, InvalidAndStatement(self))
                [] first = "Or" ->
                     eval_binary(self, ctx, InvalidOrStatement(self))
                [] first = "In" ->
                     eval_binary(self, ctx, InvalidInStatement(self))
                [] OTHER -> eval_data(self)
      [] self.tag = "String" ->
           IF starts_with(self.s, "$")
           THEN LET key == trim_start_matches(self.s, "$") IN
                IF find(ctx, key).some THEN Ok(find(ctx, key).v)
                ELSE Ok(String(<<>>))
           ELSE Ok(String(self.s))
      [] OTHER -> Ok(self)

(***************************************************************************)
(* permission.rs: Operation, Permission (u8) and the conversions.          *)
(***************************************************************************)
Operations == {"Create", "Read", "Update", "Delete", "List"}

RECURSIVE BitAnd(_, _)
BitAnd(a, b) ==
    IF a = 0 \/ b = 0 THEN 0
    ELSE (a % 2) * (b % 2) + 2 * BitAnd(a \div 2, b \div 2)

RECURSIVE BitOr(_, _)
BitOr(a, b) ==
    IF a = 0 THEN b
    ELSE IF b = 0 THEN a
    ELSE (a % 2) + (b % 2) - (a % 2) * (b % 2) + 2 * BitOr(a \div 2, b \div 2)

\* impl Into<Permission> for Operation
into(op) ==
    CASE op = "Create" -> 1
      [] op = "Read" -> 2
      [] op = "Update" -> 4
      [] op = "Delete" -> 8
      [] op = "List" -> 16

\* impl FromStr for Operation
Operation_from_str(s) ==
    CASE s = <<"c", "r", "e", "a", "t", "e">> -> Ok("Create")
      [] s = <<"r", "e", "a", "d">> -> Ok("Read")
      [] s = <<"u", "p", "d", "a", "t", "e">> -> Ok("Update")
      [] s = <<"d", "e", "l", "e", "t", "e">> -> Ok("Delete")
      [] s = <<"l", "i", "s", "t">> -> Ok("List")
      [] OTHER -> Err("()")

allowed_for(self, perm) == BitAnd(perm, into(self)) # 0

\* The for loop of Permission::from over the remaining items, permission
\* being the bits collected so far.
RECURSIVE from_items(_, _)
from_items(items, perm) ==
    IF items = <<>> THEN perm
    ELSE LET item == Head(items) IN
         IF item.tag # "String" THEN 0
         ELSE IF Operation_from_str(item.s).ok
              THEN from_items(Tail(items),
                              BitOr(perm, into(Operation_from_str(item.s).v)))
              ELSE IF item.s = <<"a", "l", "l">> THEN 31
              ELSE 0

\* impl From<Rule> for Permission
Permission_from(r) == IF r.tag = "Tuple" THEN from_items(r.items, 0) ELSE 0

(***************************************************************************)
(* resource.rs: ResourceError, ResourceAttributes, ResourcePath.           *)
(***************************************************************************)
FormatError(s) == [kind |-> "FormatError", s |-> s]

DuplicateResource(s) == [kind |-> "DuplicateResource", s |-> s]

AmbiguousResource(s, n) == [kind |-> "AmbiguousResource", s |-> s, n |-> n]

ResourceAttributes(access_rule, description) ==
    [access_rule |-> access_rule, description |-> description]

\* ResourceAttributes::default()
default == ResourceAttributes(None, None)

\* A faulty dedup: only repeated slashes are dropped.
RECURSIVE dedup_slashes(_)
dedup_slashes(s) ==
    IF Len(s) < 2 THEN s
    ELSE LET front == dedup_slashes(SubSeq(s, 1, Len(s) - 1)) IN
         IF s[Len(s)] = "/" /\ s[Len(s) - 1] = "/" THEN front
         ELSE Append(front, s[Len(s)])

\* Vec::dedup: drops every element equal to the one before it.
RECURSIVE dedup(_)
dedup(s) ==
    IF Len(s) < 2 THEN s
    ELSE LET front == dedup(SubSeq(s, 1, Len(s) - 1)) IN
         IF s[Len(s)] = s[Len(s) - 1] THEN front ELSE Append(front, s[Len(s)])

rev(s) == [i \in 1..Len(s) |-> s[Len(s) + 1 - i]]

\* A faulty from_str: the empty segments are left out, so that "/" is the
\* empty path.
from_str_no_empty(path) ==
    IF ~starts_with(path, "/") THEN Err(FormatError(path))
    ELSE Ok(rev(SelectSeq(split(Tail(dedup(path)), "/"),
                          LAMBDA segment : segment # <<>>)))

\* impl FromStr for ResourcePath: the segments in reverse order, so that the
\* last element is the next one to pop.
ResourcePath_from_str(path) ==
    IF ~starts_with(path, "/") THEN Err(FormatError(path))
    ELSE LET clean_path == Tail(dedup(path)) IN
         Ok(rev(split(clean_path, "/")))

(***************************************************************************)
(* resource.rs: ResourceHierarchy.  children is a function from child      *)
(* names to nodes.                                                         *)
(***************************************************************************)
EmptyMap == [k \in {} |-> k]

\* A faulty new: the node is given no name.
new_unnamed(name, attributes) ==
    [name |-> <<>>, attributes |-> attributes, children |-> EmptyMap,
     special_child_name |-> None]

\* ResourceHierarchy::new
new(name, attributes) ==
    [name |-> name, attributes |-> attributes, children |-> EmptyMap,
     special_child_name |-> None]

\* if let Some(access_rule) = &attributes.access_rule { eval, convert, test }:
\* Ok(TRUE) when the rule allows the operation, Ok(FALSE) when there is no
\* rule or it does not allow it, the evaluation error otherwise.
rule_allows(attributes, to, with) ==
    IF attributes.access_rule.some
    THEN LET r == eval(attributes.access_rule.v, with) IN
         IF ~r.ok THEN r ELSE Ok(allowed_for(to, Permission_from(r.v)))
    ELSE Ok(FALSE)

\* A faulty own_rule: the rule of a node is consulted only at a leaf.
own_rule_leaf_only(self, to, with) ==
    IF self.children = EmptyMap THEN rule_allows(self.attributes, to, with)
    ELSE Ok(FALSE)

\* A faulty own_rule: the trailing-slash rule is merged into the node's own
\* rule, so it is applied before any segment is popped.
own_rule_or_blanket(self, to, with) ==
    LET own == rule_allows(self.attributes, to, with) IN
    IF ~own.ok \/ own.v \/ <<>> \notin DOMAIN self.children THEN own
    ELSE rule_allows(self.children[<<>>].attributes, to, with)

\* The node's own rule, the first step of is_allowed.
own_rule(self, to, with) == rule_allows(self.attributes, to, with)

\* A faulty blanket_rule: the child named "" is an ordinary child, its rule
\* is not consulted on the way down.
blanket_rule_absent(self, to, with) == Ok(FALSE)

\* The rule of the child named "", consulted after a segment was popped.
blanket_rule(self, to, with) ==
    IF <<>> \in DOMAIN self.children
    THEN rule_allows(self.children[<<>>].attributes, to, with)
    ELSE Ok(FALSE)

\* A faulty segment_match: the error names its operands in the other order.
segment_match_swapped(l, r) ==
    IF l.tag = r.tag /\ IsScalar(l) THEN Ok(RuleEq(l, r))
    ELSE Err(CannotCompare(r, l))

\* The match on (attribute_value, from_literal(child_name)).
segment_match(l, r) ==
    IF l.tag = "String" /\ r.tag = "String" THEN Ok(l.s = r.s)
    ELSE IF l.tag = "Float" /\ r.tag = "Float" THEN Ok(F32Eq(l.f, r.f))
    ELSE IF l.tag = "Integer" /\ r.tag = "Integer" THEN Ok(l.i = r.i)
    ELSE IF l.tag = "Bool" /\ r.tag = "Bool" THEN Ok(l.b = r.b)
    ELSE Err(CannotCompare(l, r))

\* A faulty select_child: after a match the walk looks for a child named
\* like the segment, not like the attribute.
select_child_by_segment(self, child_name, with) ==
    IF self.special_child_name.some
    THEN LET attribute_value == Context_get(with, self.special_child_name.v) IN
         IF ~attribute_value.ok THEN attribute_value
         ELSE LET m == segment_match(attribute_value.v,
                                     from_literal(child_name).v) IN
              IF ~m.ok THEN m
              ELSE IF ~m.v THEN Ok(None)
              ELSE Ok(Some(child_name))
    ELSE Ok(Some(child_name))

\* A faulty select_child: an unbound attribute is the empty string, as it is
\* for $k inside a rule.
select_child_unbound_empty(self, child_name, with) ==
    IF self.special_child_name.some
    THEN LET attribute_value ==
                 IF find(with, self.special_child_name.v).some
                 THEN find(with, self.special_child_name.v).v
                 ELSE String(<<>>)
             m == segment_match(attribute_value, from_literal(child_name).v)
         IN IF ~m.ok THEN m
            ELSE IF ~m.v THEN Ok(None)
            ELSE Ok(Some(self.special_child_name.v))
    ELSE Ok(Some(child_name))

\* A faulty select_child: a literal child named like the segment is
\* preferred to the parametric child.
select_child_literal_first(self, child_name, with) ==
    IF self.special_child_name.some /\ child_name \notin DOMAIN self.children
    THEN LET attribute_value == Context_get(with, self.special_child_name.v) IN
         IF ~attribute_value.ok THEN attribute_value
         ELSE LET m == segment_match(attribute_value.v,
                                     from_literal(child_name).v) IN
              IF ~m.ok THEN m
              ELSE IF ~m.v THEN Ok(None)
              ELSE Ok(Some(self.special_child_name.v))
    ELSE Ok(Some(child_name))

\* The name of the child to descend into: Ok(Some(name)), or Ok(None) when
\* the parametric segment does not match (return Ok(false)), or the error.
select_child(self, child_name, with) ==
    IF self.special_child_name.some
    THEN LET attribute_value == Context_get(with, self.special_child_name.v) IN
         IF ~attribute_value.ok THEN attribute_value
         ELSE LET m == segment_match(attribute_value.v,
                                     from_literal(child_name).v) IN
              IF ~m.ok THEN m
              ELSE IF ~m.v THEN Ok(None)
              ELSE Ok(Some(self.special_child_name.v))
    ELSE Ok(Some(child_name))

\* What a call returns: its result, what is left of the path it popped
\* from, and the names of the children it descended into.
Returned(result, on, walk) == [result |-> result, on |-> on, walk |-> walk]

RECURSIVE is_allowed(_, _, _, _)

\* A faulty is_allowed: the own rule of a node is consulted only when the
\* path ends at the node.
is_allowed_exact(self, to, on, with) ==
    LET own == IF on = <<>> THEN own_rule(self, to, with) ELSE Ok(FALSE) IN
    IF ~own.ok THEN Returned(own, on, <<>>)
    ELSE IF own.v THEN Returned(Ok(TRUE), on, <<>>)
    ELSE IF on = <<>> THEN Returned(Ok(FALSE), on, <<>>)
    ELSE LET child_name == on[Len(on)]
             rest == SubSeq(on, 1, Len(on) - 1)
             blanket == blanket_rule(self, to, with)
         IN IF ~blanket.ok THEN Returned(blanket, rest, <<>>)
            ELSE IF blanket.v THEN Returned(Ok(TRUE), rest, <<>>)
            ELSE LET selected == select_child(self, child_name, with) IN
                 IF ~selected.ok THEN Returned(selected, rest, <<>>)
                 ELSE IF ~selected.v.some THEN Returned(Ok(FALSE), rest, <<>>)
                 ELSE IF selected.v.v \in DOMAIN self.children
                 THEN LET child == is_allowed(self.children[selected.v.v],
                                              to, rest, with)
                      IN Returned(child.result, child.on,
                                  <<selected.v.v>> \o child.walk)
                 ELSE Returned(Ok(FALSE), rest, <<>>)

\* ResourceHierarchy::is_allowed
is_allowed(self, to, on, with) ==
    LET own == own_rule(self, to, with) IN
    IF ~own.ok THEN Returned(own, on, <<>>)
    ELSE IF own.v THEN Returned(Ok(TRUE), on, <<>>)
    ELSE IF on = <<>> THEN Returned(Ok(FALSE), on, <<>>)
    ELSE LET child_name == on[Len(on)]
             rest == SubSeq(on, 1, Len(on) - 1)
             blanket == blanket_rule(self, to, with)
         IN IF ~blanket.ok THEN Returned(blanket, rest, <<>>)
            ELSE IF blanket.v THEN Returned(Ok(TRUE), rest, <<>>)
            ELSE LET selected == select_child(self, child_name, with) IN
                 IF ~selected.ok THEN Returned(selected, rest, <<>>)
                 ELSE IF ~selected.v.some THEN Returned(Ok(FALSE), rest, <<>>)
                 ELSE IF selected.v.v \in DOMAIN self.children
                 THEN LET child == is_allowed(self.children[selected.v.v],
                                              to, rest, with)
                      IN Returned(child.result, child.on,
                                  <<selected.v.v>> \o child.walk)
                 ELSE Returned(Ok(FALSE), rest, <<>>)

\* What insert leaves behind: its result, the node as it is after the call
\* (insert works on &mut self, so an Err keeps what was changed before it).
Inserted(result, self) == [result |-> result, self |-> self]

\* A faulty insert_here: the new attributes replace those of the node.
insert_here_replacing(self, full_path, attributes) ==
    Inserted(Ok("()"), [self EXCEPT !.attributes = attributes])

\* The path is exhausted: self is the node the attributes are for.
insert_here(self, full_path, attributes) ==
    IF self.attributes.access_rule.some
    THEN Inserted(Err(DuplicateResource(full_path)), self)
    ELSE Inserted(Ok("()"), [self EXCEPT !.attributes = attributes])

\* A faulty ambiguous: a second parametric child is let in.
ambiguous_never(self, child_name) == FALSE

\* A parametric segment at a node that has its parametric child already.
ambiguous(self, child_name) ==
    starts_with(child_name, ":") /\ self.special_child_name.some

RECURSIVE insert(_, _, _, _)
insert(self, full_path, path, attributes) ==
    IF path = <<>>
    THEN insert_here(self, full_path, attributes)
    ELSE LET popped == path[Len(path)]
             rest == SubSeq(path, 1, Len(path) - 1)
         IN IF ambiguous(self, popped)
            THEN Inserted(Err(AmbiguousResource(full_path,
                                                self.special_child_name.v)),
                          self)
            ELSE LET child_name ==
                         IF starts_with(popped, ":") THEN Tail(popped)
                         ELSE popped
                     named ==
                         IF starts_with(popped, ":")
                         THEN [self EXCEPT
                                 !.special_child_name = Some(child_name)]
                         ELSE self
                     entry ==
                         IF child_name \in DOMAIN named.children
                         THEN named.children[child_name]
                         ELSE new(child_name, default)
                     child == insert(entry, full_path, rest, attributes)
                 IN Inserted(child.result,
                             [named EXCEPT !.children =
                                (child_name :> child.self) @@ named.children])

(***************************************************************************)
(* The texts, rules, resources and requests the model draws its inputs     *)
(* from.  A rule is the tree parse_rule returns for the text in the        *)
(* comment.                                                                *)
(***************************************************************************)
s_list == <<"l", "i", "s", "t">>

s_create == <<"c", "r", "e", "a", "t", "e">>

s_read == <<"r", "e", "a", "d">>

s_update == <<"u", "p", "d", "a", "t", "e">>

s_delete == <<"d", "e", "l", "e", "t", "e">>

s_all == <<"a", "l", "l">>

s_bogus == <<"b", "o", "g", "u", "s">>

\* (list n1 n2 ...)
ListOf(names) ==
    Tuple(<<List(s_list)>> \o [i \in 1..Len(names) |-> String(names[i])])

\* (if (eq $a x) (list delete) (list))
RuleIfEq ==
    Tuple(<<If(<<"i", "f">>),
            Tuple(<<Eq(<<"e", "q">>), String(<<"$", "a">>), String(<<"x">>)>>),
            ListOf(<<s_delete>>),
            ListOf(<<>>)>>)

\* impl Deserialize for Rule: a rule of the configuration is kept only if it
\* evaluates without error under the empty context.
deserialize(r) == IF eval(r, <<>>).ok THEN Ok(r) ELSE Err("custom")

Resource(path, r) ==
    [path |-> path, attributes |-> ResourceAttributes(Some(r), None)]

\* The (path, attributes) entries a configuration is made of.
Resources ==
    { e \in { Resource(<<"/">>, ListOf(<<s_list>>)),
              Resource(<<"/", "x">>, ListOf(<<s_create>>)),
              Resource(<<"/", "x", "/">>, ListOf(<<s_read>>)),
              Resource(<<"/", "x", "/", "y">>, ListOf(<<s_read>>)),
              Resource(<<"/", "p">>, RuleIfEq),
              Resource(<<"/", "p", "/">>, ListOf(<<s_update>>)),
              Resource(<<"/", "p", "/", ":", "a">>, ListOf(<<s_all>>)),
              Resource(<<"/", "p", "/", ":", "a", "/", "y">>,
                       ListOf(<<s_create>>)),
              Resource(<<"/", "p", "/", "1">>, ListOf(<<s_delete>>)),
              Resource(<<"/", "p", "/", "a">>, ListOf(<<s_read>>)) } :
        deserialize(e.attributes.access_rule.v).ok }

\* "", "a:1", "a:x"
Contexts ==
    { <<>>,
      <<Binding(<<"a">>, <<"1">>)>>,
      <<Binding(<<"a">>, <<"x">>)>> }

RequestPaths ==
    { <<"/">>,
      <<"/", "x">>,
      <<"/", "x", "/">>,
      <<"/", "x", "/", "s">>,
      <<"/", "x", "/", "y", "/", "t">>,
      <<"/", "p">>,
      <<"/", "p", "/">>,
      <<"/", "p", "/", "1">>,
      <<"/", "p", "/", "0", "1">>,
      <<"/", "p", "/", "x">>,
      <<"/", "p", "/", "1", "/", "y">> }

\* The number of insert calls a behaviour makes.
MaxInserts == 3

(***************************************************************************)
(* The hierarchy: built by insert from an empty root (TryFrom<Config>),    *)
(* then asked for decisions.                                               *)
(***************************************************************************)
Idle ==
    /\ value = None
    /\ permission = None
    /\ rule = None
    /\ context = None
    /\ evaluated = None
    /\ source = None
    /\ parsed = None
    /\ config = {}
    /\ order = <<>>
    /\ calls = <<>>

Init ==
    /\ root = new(<<>>, default)
    /\ ninserts = 0
    /\ inserted = None
    /\ request = None
    /\ decision = None
    /\ Idle

\* root.insert(path, &mut ResourcePath::from_str(path)?, attributes): one
\* entry of the loop of try_from.
Insert(full_path, attributes) ==
    /\ ninserts < MaxInserts
    /\ ninserts' = ninserts + 1
    /\ LET path == ResourcePath_from_str(full_path) IN
       IF ~path.ok
       THEN /\ inserted' = Some(path)
            /\ root' = root
       ELSE LET r == insert(root, full_path, path.v, attributes) IN
            /\ inserted' = Some(r.result)
            /\ root' = r.self
    /\ request' = None
    /\ decision' = None
    /\ UNCHANGED <<texts, building, calls, value, permission, rule, context,
                   evaluated>>

\* root.is_allowed(to, &mut ResourcePath::from_str(path).unwrap(), &with),
\* one call at a time.
IsAllowed(to, path, with) ==
    /\ request = None
    /\ ResourcePath_from_str(path).ok
    /\ request' = Some([to |-> to, path |-> path, with |-> with])
    /\ decision' =
          Some(is_allowed(root, to, ResourcePath_from_str(path).v, with))
    /\ UNCHANGED <<texts, building, calls, root, ninserts, inserted, value,
                   permission, rule, context, evaluated>>

\* The caller has read the result and drops the request and its path.
Done ==
    /\ request # None
    /\ request' = None
    /\ decision' = None
    /\ UNCHANGED <<texts, building, calls, root, ninserts, inserted, value,
                   permission, rule, context, evaluated>>

Next ==
    \/ \E e \in Resources : Insert(e.path, e.attributes)
    \/ \E to \in Operations, path \in RequestPaths, with \in Contexts :
          IsAllowed(to, path, with)
    \/ Done

Spec == Init /\ [][Next]_vars

(***************************************************************************)
(* The pipeline a rule goes through in a decision, one function at a time: *)
(* a rule of the configuration is evaluated, the value is converted to a   *)
(* permission, the value is evaluated once more, and a hierarchy with      *)
(* "/x" as its only resource, holding the rule, is asked for a decision.   *)
(***************************************************************************)
\* The tokens of a list form, as parse_rule emits them.
ListItems ==
    { String(s_create), String(s_read), String(s_update), String(s_delete),
      String(s_list), String(s_all), String(s_bogus), Integer(1) }

\* The number of items of a list form.
MaxItems == 3

ListForm(items) == Tuple(<<List(s_list)>> \o items)

\* The operator tokens.
op_if == If(<<"i", "f">>)

op_eq == Eq(<<"e", "q">>)

op_and == And(<<"a", "n", "d">>)

op_or == Or(<<"o", "r">>)

\* $a, $b
ref_a == String(<<"$", "a">>)

ref_b == String(<<"$", "b">>)

\* (eq 1 x), which fails to evaluate, and (eq $a x), which fails when a is
\* bound to an integer.
EqFails == Tuple(<<op_eq, Integer(1), String(<<"x">>)>>)

EqRef == Tuple(<<op_eq, ref_a, String(<<"x">>)>>)

\* $a, $b, (list $a $b), (list $b), (eq $a x), (eq $b x), (eq $b $b)
LookupForms ==
    { ref_a,
      ref_b,
      ListForm(<<ref_a, ref_b>>),
      ListForm(<<ref_b>>),
      EqRef,
      Tuple(<<op_eq, ref_b, String(<<"x">>)>>),
      Tuple(<<op_eq, ref_b, ref_b>>) }

\* if, and, or with operands that fail or that are no Bool:
\* (if true (list all) (eq 1 x)), (if false (eq 1 x) (list)),
\* (if (eq 1 x) 1 2), (if true (list all) (eq $a x)), (if 1 2 3),
\* (and false (eq 1 x)), (and (eq 1 x) false), (and true false),
\* (and false 1), (or true (eq 1 x)), (or (eq $a x) true), (or false true),
\* (or true 1)
OperandForms ==
    { Tuple(<<op_if, Bool(TRUE), ListOf(<<s_all>>), EqFails>>),
      Tuple(<<op_if, Bool(FALSE), EqFails, ListOf(<<>>)>>),
      Tuple(<<op_if, EqFails, Integer(1), Integer(2)>>),
      Tuple(<<op_if, Bool(TRUE), ListOf(<<s_all>>), EqRef>>),
      Tuple(<<op_if, Integer(1), Integer(2), Integer(3)>>),
      Tuple(<<op_and, Bool(FALSE), EqFails>>),
      Tuple(<<op_and, EqFails, Bool(FALSE)>>),
      Tuple(<<op_and, Bool(TRUE), Bool(FALSE)>>),
      Tuple(<<op_and, Bool(FALSE), Integer(1)>>),
      Tuple(<<op_or, Bool(TRUE), EqFails>>),
      Tuple(<<op_or, EqRef, Bool(TRUE)>>),
      Tuple(<<op_or, Bool(FALSE), Bool(TRUE)>>),
      Tuple(<<op_or, Bool(TRUE), Integer(1)>>) }

op_in == In(<<"i", "n">>)

s_john == <<"j", "o", "h", "n">>

s_jane == <<"j", "a", "n", "e">>

\* in forms: (in john (list)), (in john (list john jane)),
\* (in john (list jane)), (in john (list 10 john)), (in 10 (list 10 john)),
\* (in 1 (list true 1.5)), (in true (list true)), (in 1.5 (list 1 1.5)),
\* (in $a (list 1 x)), (in x (list $a)), (in john (john jane)),
\* (in john jane), (in (list john) jane), (in (list john) (list john)),
\* (in (list) (list)), (in john), (in john (list) (list)),
\* (in (eq 1 x) (list)), (in john (list (eq 1 x)))
InForms ==
    { Tuple(<<op_in, String(s_john), ListOf(<<>>)>>),
      Tuple(<<op_in, String(s_john), ListOf(<<s_john, s_jane>>)>>),
      Tuple(<<op_in, String(s_john), ListOf(<<s_jane>>)>>),
      Tuple(<<op_in, String(s_john),
              ListForm(<<Integer(10), String(s_john)>>)>>),
      Tuple(<<op_in, Integer(10), ListForm(<<Integer(10), String(s_john)>>)>>),
      Tuple(<<op_in, Integer(1),
              ListForm(<<Bool(TRUE), from_literal(<<"1", ".", "5">>).v>>)>>),
      Tuple(<<op_in, Bool(TRUE), ListForm(<<Bool(TRUE)>>)>>),
      Tuple(<<op_in, from_literal(<<"1", ".", "5">>).v,
              ListForm(<<Integer(1), from_literal(<<"1", ".", "5">>).v>>)>>),
      Tuple(<<op_in, ref_a, ListForm(<<Integer(1), String(<<"x">>)>>)>>),
      Tuple(<<op_in, String(<<"x">>), ListForm(<<ref_a>>)>>),
      Tuple(<<op_in, String(s_john),
              Tuple(<<String(s_john), String(s_jane)>>)>>),
      Tuple(<<op_in, String(s_john), String(s_jane)>>),
      Tuple(<<op_in, ListOf(<<s_john>>), String(s_jane)>>),
      Tuple(<<op_in, ListOf(<<s_john>>), ListOf(<<s_john>>)>>),
      Tuple(<<op_in, ListOf(<<>>), ListOf(<<>>)>>),
      Tuple(<<op_in, String(s_john)>>),
      Tuple(<<op_in, String(s_john), ListOf(<<>>), ListOf(<<>>)>>),
      Tuple(<<op_in, EqFails, ListOf(<<>>)>>),
      Tuple(<<op_in, String(s_john), ListForm(<<EqFails>>)>>) }

\* (list i1 .. in), some nested list forms, (), (if true (list all) (list)),
\* (if true 1 (list all)), (eq 1 1)
RuleForms ==
    { ListForm(items) :
        items \in UNION { [1..n -> ListItems] : n \in 0..MaxItems } }
    \cup
    { ListForm(<<ListForm(<<String(s_create)>>), String(s_read)>>),
      ListForm(<<ListForm(<<>>)>>),
      ListForm(<<Float(ParseF32(<<"n", "a", "n">>).v)>>),
      Tuple(<<>>),
      Tuple(<<If(<<"i", "f">>), Bool(TRUE), ListOf(<<s_all>>), ListOf(<<>>)>>),
      Tuple(<<If(<<"i", "f">>), Bool(TRUE), Integer(1), ListOf(<<s_all>>)>>),
      Tuple(<<Eq(<<"e", "q">>), Integer(1), Integer(1)>>) }
    \cup LookupForms \cup OperandForms \cup InForms

\* "", "a:1", "a:x,a:1"
RuleContexts ==
    { <<>>,
      <<Binding(<<"a">>, <<"1">>)>>,
      <<Binding(<<"a">>, <<"x">>), Binding(<<"a">>, <<"1">>)>> }

InitRule ==
    /\ rule \in RuleForms
    /\ context \in RuleContexts
    /\ evaluated = None
    /\ permission = None
    /\ value = None
    /\ root = new(<<>>, default)
    /\ ninserts = 0
    /\ inserted = None
    /\ request = None
    /\ decision = None
    /\ source = None
    /\ parsed = None
    /\ config = {}
    /\ order = <<>>
    /\ calls = <<>>

\* rule.eval(&context)
Eval ==
    /\ evaluated = None
    /\ evaluated' = Some(eval(rule, context))
    /\ UNCHANGED <<texts, building, calls, root, ninserts, inserted, request,
                   decision, value, permission, rule, context>>

\* Permission::from(value), for the value of a rule that evaluated.
Convert ==
    /\ evaluated # None
    /\ evaluated.v.ok
    /\ permission = None
    /\ permission' = Some(Permission_from(evaluated.v.v))
    /\ UNCHANGED <<texts, building, calls, root, ninserts, inserted, request,
                   decision, value, rule, context, evaluated>>

\* value.eval(&context), for the value of a rule that evaluated.
Reeval ==
    /\ permission # None
    /\ value = None
    /\ value' = Some(eval(evaluated.v.v, context))
    /\ UNCHANGED <<texts, building, calls, root, ninserts, inserted, request,
                   decision, permission, rule, context, evaluated>>

\* try_from of the configuration {"/x" = rule}, then is_allowed(to, "/x").
Ask(to) ==
    /\ value # None
    /\ request = None
    /\ deserialize(rule).ok
    /\ LET path == <<"/", "x">>
           built == insert(new(<<>>, default), path,
                           ResourcePath_from_str(path).v,
                           ResourceAttributes(Some(rule), None))
       IN /\ built.result.ok
          /\ root' = built.self
          /\ ninserts' = ninserts + 1
          /\ inserted' = Some(built.result)
          /\ request' = Some([to |-> to, path |-> path, with |-> context])
          /\ decision' = Some(is_allowed(built.self, to,
                                         ResourcePath_from_str(path).v,
                                         context))
    /\ UNCHANGED <<texts, building, calls, value, permission, rule, context,
                   evaluated>>

NextRule ==
    \/ Eval
    \/ Convert
    \/ Reeval
    \/ \E to \in Operations : Ask(to)

SpecRule == InitRule /\ [][NextRule]_vars

(***************************************************************************)
(* TryFrom<Config>: the entries of the configuration, a map from path      *)
(* strings to attributes, are inserted into an empty root in the order the *)
(* HashMap yields them, which is any order; the first error ends the       *)
(* build.                                                                  *)
(***************************************************************************)
\* An entry without access_rule, with a description.
Described(path, text) ==
    [path |-> path, attributes |-> ResourceAttributes(None, Some(text))]

\* "/x", "//x", "/xx" and "/xxx" are the same path once normalized; "x" is
\* no path.
Entries ==
    { Resource(<<"/", "x">>, ListOf(<<s_create>>)),
      Resource(<<"/", "/", "x">>, ListOf(<<s_read>>)),
      Described(<<"/", "x", "x">>, <<"d", "1">>),
      Described(<<"/", "x", "x", "x">>, <<"d", "2">>),
      Resource(<<"/", "x", "/">>, ListOf(<<s_read>>)),
      Resource(<<"/", "x", "/", "y">>, ListOf(<<s_update>>)),
      Resource(<<"/", "p", "/", ":", "a">>, ListOf(<<s_all>>)),
      Resource(<<"/", "/", "p", "/", ":", "a">>, ListOf(<<s_list>>)),
      Resource(<<"/", "p", "/", ":", "b">>, ListOf(<<s_delete>>)),
      Resource(<<"/", "p", "/", ":", "a", "/", "y">>, ListOf(<<s_create>>)),
      Resource(<<"/", "p", "/", "1">>, ListOf(<<s_delete>>)),
      Resource(<<"/", "p", "/", "a">>, ListOf(<<s_read>>)),
      Resource(<<"x">>, ListOf(<<s_create>>)) }

\* The number of entries of a configuration.
MaxEntries == 3

\* The configurations: the keys of a map are distinct.
Configs ==
    { c \in SUBSET Entries :
        /\ Cardinality(c) <= MaxEntries
        /\ \A e1, e2 \in c : e1.path = e2.path => e1 = e2 }

Range(s) == { s[i] : i \in 1..Len(s) }

InitBuild ==
    /\ config \in Configs
    /\ order = <<>>
    /\ root = new(<<>>, default)
    /\ ninserts = 0
    /\ inserted = None
    /\ request = None
    /\ decision = None
    /\ value = None
    /\ permission = None
    /\ rule = None
    /\ context = None
    /\ evaluated = None
    /\ source = None
    /\ parsed = None
    /\ calls = <<>>

\* One turn of the loop of try_from, for an entry not yet taken:
\* root.insert(path, &mut ResourcePath::from_str(path)?, attributes)?
BuildInsert(e) ==
    /\ e \in config \ Range(order)
    /\ IF inserted = None THEN TRUE ELSE inserted.v.ok
    /\ order' = Append(order, e)
    /\ ninserts' = ninserts + 1
    /\ LET path == ResourcePath_from_str(e.path) IN
       IF ~path.ok
       THEN /\ inserted' = Some(path)
            /\ root' = root
       ELSE LET r == insert(root, e.path, path.v, e.attributes) IN
            /\ inserted' = Some(r.result)
            /\ root' = r.self
    /\ UNCHANGED <<request, decision, value, permission, rule, context,
                   evaluated, source, parsed, config, calls>>

\* try_from, the HashMap yielding the entries in the order es.
RECURSIVE try_from(_, _)
try_from(self, es) ==
    IF es = <<>> THEN Ok(self)
    ELSE LET path == ResourcePath_from_str(Head(es).path) IN
         IF ~path.ok THEN path
         ELSE LET r == insert(self, Head(es).path, path.v,
                              Head(es).attributes)
              IN IF ~r.result.ok THEN r.result
                 ELSE try_from(r.self, Tail(es))

NextBuild ==
    \/ \E e \in Entries : BuildInsert(e)

SpecBuild == InitBuild /\ [][NextBuild]_vars

(***************************************************************************)
(* Decisions in parallel: threads call is_allowed on one built hierarchy,  *)
(* shared by reference, each with a ResourcePath of its own.  A call takes *)
(* the steps of is_allowed one at a time and the steps of the calls        *)
(* interleave.                                                             *)
(***************************************************************************)
\* The configuration the hierarchy is built from.
WalkEntries ==
    << Resource(<<"/">>, ListOf(<<s_list>>)),
       Resource(<<"/", "x">>, ListOf(<<s_create>>)),
       Resource(<<"/", "x", "/">>, ListOf(<<s_read>>)),
       Resource(<<"/", "p">>, RuleIfEq),
       Resource(<<"/", "p", "/", ":", "a">>, ListOf(<<s_all>>)) >>

Request(to, path, with) == [to |-> to, path |-> path, with |-> with]

\* The calls the threads make.
Requests ==
    { Request("List", <<"/", "x", "/", "s">>, <<>>),
      Request("Read", <<"/", "x", "/", "s">>, <<>>),
      Request("Update", <<"/", "x", "/", "s">>, <<>>),
      Request("Delete", <<"/", "p", "/", "1">>, <<Binding(<<"a">>, <<"1">>)>>),
      Request("Update", <<"/", "p", "/", "x">>, <<Binding(<<"a">>, <<"x">>)>>),
      Request("Update", <<"/", "p", "/", "1">>, <<Binding(<<"a">>, <<"x">>)>>),
      Request("Update", <<"/", "p", "/", "x">>, <<>>) }

\* The number of threads.
MaxCalls == 2

Threads == 1..MaxCalls


\* A call in progress: its arguments as they were passed (req), the path it
\* pops from (on), the context (with), the keys of the children it has
\* descended into (at), the segment it popped last (child_name), where it is
\* in is_allowed (pc), and its result once it has one.
Call(req, on, with, at, child_name, pc, result) ==
    [req |-> req, on |-> on, with |-> with, at |-> at,
     child_name |-> child_name, pc |-> pc, result |-> result]

\* A thread that is in no call.
NoCall == Call(None, <<>>, <<>>, <<>>, <<>>, "idle", None)

\* The node with these keys below self.
RECURSIVE Descend(_, _)
Descend(self, keys) ==
    IF keys = <<>> THEN self
    ELSE Descend(self.children[Head(keys)], Tail(keys))

\* The call returns result.
Return(c, result) ==
    Call(c.req, c.on, c.with, c.at, c.child_name, "done", Some(result))

\* The call goes on at pc.
Goto(c, pc) == Call(c.req, c.on, c.with, c.at, c.child_name, pc, c.result)

InitWalk ==
    /\ order = WalkEntries
    /\ root = try_from(new(<<>>, default), WalkEntries).v
    /\ calls = [t \in Threads |-> NoCall]
    /\ config = {}
    /\ ninserts = 0
    /\ inserted = None
    /\ request = None
    /\ decision = None
    /\ value = None
    /\ permission = None
    /\ rule = None
    /\ context = None
    /\ evaluated = None
    /\ source = None
    /\ parsed = None

\* A faulty path_owner: the threads pop from one ResourcePath.
path_owner_first(t) == 1

\* The thread whose ResourcePath the call of thread t pops from: its own.
path_owner(t) == t

\* root.is_allowed(to, &mut ResourcePath::from_str(path).unwrap(), &with)
\* is entered.
Begin(t, req) ==
    /\ calls[t].pc = "idle"
    /\ ResourcePath_from_str(req.path).ok
    /\ calls' = [calls EXCEPT ![t] =
                   Call(req, ResourcePath_from_str(req.path).v, req.with,
                        <<>>, <<>>, "rule", None)]
    /\ UNCHANGED <<root, order>>

\* The node's own rule.
CheckOwnRule(t) ==
    /\ calls[t].pc = "rule"
    /\ LET c == calls[t]
           own == own_rule(Descend(root, c.at), c.req.to, c.with)
       IN calls' = [calls EXCEPT ![t] =
                      IF ~own.ok THEN Return(c, own)
                      ELSE IF own.v THEN Return(c, Ok(TRUE))
                      ELSE Goto(c, "pop")]
    /\ UNCHANGED <<root, order>>

\* on.0.pop()
Pop(t) ==
    /\ calls[t].pc = "pop"
    /\ LET o == path_owner(t)
           on == calls[o].on
       IN IF on = <<>>
          THEN calls' = [calls EXCEPT ![t] = Return(calls[t], Ok(FALSE))]
          ELSE calls' = [calls EXCEPT
                           ![o].on = SubSeq(on, 1, Len(on) - 1),
                           ![t].child_name = on[Len(on)],
                           ![t].pc = "blanket"]
    /\ UNCHANGED <<root, order>>

\* The rule of the child named "".
CheckBlanketRule(t) ==
    /\ calls[t].pc = "blanket"
    /\ LET c == calls[t]
           blanket == blanket_rule(Descend(root, c.at), c.req.to, c.with)
       IN calls' = [calls EXCEPT ![t] =
                      IF ~blanket.ok THEN Return(c, blanket)
                      ELSE IF blanket.v THEN Return(c, Ok(TRUE))
                      ELSE Goto(c, "select")]
    /\ UNCHANGED <<root, order>>

\* The child to go on with, and the recursive call on it.
SelectChild(t) ==
    /\ calls[t].pc = "select"
    /\ LET c == calls[t]
           self == Descend(root, c.at)
           selected == select_child(self, c.child_name, c.with)
       IN calls' = [calls EXCEPT ![t] =
                      IF ~selected.ok THEN Return(c, selected)
                      ELSE IF ~selected.v.some THEN Return(c, Ok(FALSE))
                      ELSE IF selected.v.v \in DOMAIN self.children
                      THEN Call(c.req, c.on, c.with,
                                Append(c.at, selected.v.v), c.child_name,
                                "rule", c.result)
                      ELSE Return(c, Ok(FALSE))]
    /\ UNCHANGED <<root, order>>

\* The caller has the result; its path and context are dropped.
Returns(t) ==
    /\ calls[t].pc = "done"
    /\ calls' = [calls EXCEPT ![t] = NoCall]
    /\ UNCHANGED <<root, order>>

NextWalk ==
    /\ \E t \in Threads :
          \/ \E req \in Requests : Begin(t, req)
          \/ CheckOwnRule(t)
          \/ Pop(t)
          \/ CheckBlanketRule(t)
          \/ SelectChild(t)
          \/ Returns(t)
    /\ UNCHANGED <<texts, config, ninserts, inserted, request, decision,
                   value, permission, rule, context, evaluated>>

SpecWalk == InitWalk /\ [][NextWalk]_vars

(***************************************************************************)
(* The from_str functions, each applied to a text: a rule of the           *)
(* configuration, a context string, a path.                                *)
(***************************************************************************)
\* Well-formed rules: (), (if), (if x y z), (if true true false), ...
Forms ==
    { <<"(", ")">>,
      <<"(", "i", "f", ")">>,
      <<"(", "i", "f", " ", "x", " ", "y", " ", "z", ")">>,
      <<"(", "i", "f", " ", "t", "r", "u", "e", " ", "t", "r", "u", "e",
        " ", "f", "a", "l", "s", "e", ")">>,
      <<"(", "l", "i", "s", "t", " ", "c", "r", "e", "a", "t", "e", ")">>,
      <<"(", "e", "q", " ", "1", " ", "1", ")">>,
      <<"(", "i", "f", " ", "(", "e", "q", " ", "a", " ", "b", ")", " ",
        "c", " ", "d", ")">>,
      <<"(", "l", "i", "s", "t", " ", "(", "l", "i", "s", "t", " ", "a",
        ")", " ", "b", ")">>,
      <<"(", "i", "f", " ", "(", "e", "q", " ", "$", "a", " ", "1", ")",
        " ", "(", "l", "i", "s", "t", " ", "a", "l", "l", ")", " ", "(",
        "l", "i", "s", "t", ")", ")">> }

\* The number of characters a text lacks of the form it was typed from.
MaxDrops == 1

\* s without its i-th character.
DropAt(s, i) == SubSeq(s, 1, i - 1) \o SubSeq(s, i + 1, Len(s))

\* The texts with up to n characters of s missing.
RECURSIVE Drops(_, _)
Drops(s, n) ==
    IF n = 0 THEN {s}
    ELSE {s} \cup UNION { Drops(DropAt(s, i), n - 1) : i \in 1..Len(s) }

\* The forms, the forms with characters missing, with the end cut off, and
\* with one more closing parenthesis; the first is the empty text.
RuleTexts ==
    UNION { Drops(f, MaxDrops) : f \in Forms }
    \cup UNION { { SubSeq(f, 1, n) : n \in 0..Len(f) } : f \in Forms }
    \cup { Append(f, ")") : f \in Forms }

\* Paths as they are written in a configuration or a request.
PathForms ==
    { <<"/">>,
      <<"/", "a", "/", "b", "/">>,
      <<"/", "t", "e", "s", "t", "1", "/", "t", "e", "s", "t", "2">>,
      <<"/", "/", "a", "a", "/", "/", "b">>,
      <<"/", ":", "a", "/", "x">>,
      <<"a", "/", "b">> }

PathTexts == UNION { Drops(f, MaxDrops) : f \in PathForms }

\* Context strings.
ContextForms ==
    { <<"a", ":", "1">>,
      <<"a", ":", "1", ",", "b", ":", "x">>,
      <<"k", ":", "a", ":", "b">>,
      <<",", "a", ":", "1", ",", ",", "b", ":", "2">>,
      <<"n", ":", "J", "o", "h", "n", ",", "w", ":", "7", "0", ".", "5",
        ",", "t", ":", "t", "r", "u", "e">>,
      <<"a", ":", "1", ",", "a", ":", "2">> }

ContextTexts == UNION { Drops(f, MaxDrops) : f \in ContextForms }

Texts == RuleTexts \cup PathTexts \cup ContextTexts

InitText ==
    /\ source \in { Some(t) : t \in Texts }
    /\ parsed = None
    /\ config = {}
    /\ order = <<>>
    /\ calls = <<>>
    /\ root = new(<<>>, default)
    /\ ninserts = 0
    /\ inserted = None
    /\ request = None
    /\ decision = None
    /\ value = None
    /\ permission = None
    /\ rule = None
    /\ context = None
    /\ evaluated = None

\* What a from_str returned.
Parsed(of, result) == [of |-> of, result |-> result]

\* Rule::from_str(source)
ParseRule ==
    /\ parsed = None
    /\ parsed' = Some(Parsed("Rule", Rule_from_str(source.v)))
    /\ UNCHANGED <<root, ninserts, inserted, request, decision, value,
                   permission, rule, context, evaluated, source, building,
                   calls>>

\* ResourcePath::from_str(source)
ParsePath ==
    /\ parsed = None
    /\ parsed' = Some(Parsed("ResourcePath",
                             ResourcePath_from_str(source.v)))
    /\ UNCHANGED <<root, ninserts, inserted, request, decision, value,
                   permission, rule, context, evaluated, source, building,
                   calls>>

\* Context::from_str(source)
ParseContext ==
    /\ parsed = None
    /\ parsed' = Some(Parsed("Context", Context_from_str(source.v)))
    /\ UNCHANGED <<root, ninserts, inserted, request, decision, value,
                   permission, rule, context, evaluated, source, building,
                   calls>>

NextText ==
    \/ ParseRule
    \/ ParsePath
    \/ ParseContext

SpecText == InitText /\ [][NextText]_vars

(***************************************************************************)
(* What the properties of the decision walk are stated with.               *)
(***************************************************************************)
Req == request.v

Dec == decision.v

\* The segments of the request in the order the walk pops them.
Segs == rev(ResourcePath_from_str(Req.path).v)

\* The path as it is after j segments were popped.
RestAfter(j) ==
    LET on == ResourcePath_from_str(Req.path).v IN SubSeq(on, 1, Len(on) - j)

RECURSIVE NodeAt(_, _)
NodeAt(self, keys) ==
    IF keys = <<>> THEN self
    ELSE NodeAt(self.children[Head(keys)], Tail(keys))

\* The i-th node the walk arrived at, the root being the 0-th.
Visited(i) == NodeAt(root, SubSeq(Dec.walk, 1, i))

\* The rule of these attributes evaluates to a permission with the bit of to.
Permits(attributes, to, with) ==
    /\ attributes.access_rule.some
    /\ eval(attributes.access_rule.v, with).ok
    /\ BitAnd(Permission_from(eval(attributes.access_rule.v, with).v),
              into(to)) # 0

\* The rule of these attributes fails to evaluate.
Fails(attributes, with) ==
    /\ attributes.access_rule.some
    /\ ~eval(attributes.access_rule.v, with).ok

\* The attributes of the trailing-slash child of n, if it has one.
Blanket(n) ==
    IF <<>> \in DOMAIN n.children THEN n.children[<<>>].attributes
    ELSE default

\* The tree after these resources were inserted in this order.
RECURSIVE Built(_)
Built(es) ==
    IF es = <<>> THEN new(<<>>, default)
    ELSE LET e == es[Len(es)] IN
         insert(Built(SubSeq(es, 1, Len(es) - 1)), e.path,
                ResourcePath_from_str(e.path).v, e.attributes).self

\* C1: whenever the walk arrives at a node whose own rule evaluates to a
\* permission with the operation's bit, the call returns Ok(true) at that
\* node: it descends no further and pops no segment there, whatever is left
\* of the path and whatever children the node has.
C1_ShortCircuitAllow ==
    decision # None =>
        \A i \in 0..Len(Dec.walk) :
            Permits(Visited(i).attributes, Req.to, Req.with) =>
                /\ Dec.result = Ok(TRUE)
                /\ i = Len(Dec.walk)
                /\ Dec.on = RestAfter(i)

\* A call returned Ok(true) from a node's own rule with segments left in the
\* path, at a node that has a trailing-slash and a parametric child.
C1_Witness ==
    /\ decision # None
    /\ Permits(Visited(Len(Dec.walk)).attributes, Req.to, Req.with)
    /\ Dec.on # <<>>
    /\ Visited(Len(Dec.walk)).special_child_name.some
    /\ <<>> \in DOMAIN Visited(Len(Dec.walk)).children

RECURSIVE HasNode(_, _)
HasNode(self, keys) ==
    \/ keys = <<>>
    \/ /\ Head(keys) \in DOMAIN self.children
       /\ HasNode(self.children[Head(keys)], Tail(keys))

\* "/x/" with (list read) is the only resource: Read on "/x/s" is allowed,
\* every other operation is denied.
C2_Example ==
    ( /\ root = Built(<<Resource(<<"/", "x", "/">>, ListOf(<<s_read>>))>>)
      /\ Req.path = <<"/", "x", "/", "s">>
      /\ Req.with = <<>> )
    => Dec.result = Ok(Req.to = "Read")

\* C2 as stated: if the node at a proper prefix of the request path has a
\* trailing-slash child whose rule evaluates to a permission with the
\* operation's bit, the call returns Ok(true); and the example.
C2_Inheritance ==
    decision # None =>
        /\ \A j \in 0..(Len(Segs) - 1) :
              ( /\ HasNode(root, SubSeq(Segs, 1, j))
                /\ Permits(Blanket(NodeAt(root, SubSeq(Segs, 1, j))),
                           Req.to, Req.with) )
              => Dec.result = Ok(TRUE)
        /\ C2_Example

\* C2 amended: if the walk arrives at a node with a segment still to pop,
\* the node's own rule does not fail to evaluate, and the node has a
\* trailing-slash child whose rule evaluates to a permission with the
\* operation's bit, the call returns Ok(true); and the example.
C2_InheritanceOnArrival ==
    decision # None =>
        /\ \A i \in 0..Len(Dec.walk) :
              ( /\ i < Len(Segs)
                /\ ~Fails(Visited(i).attributes, Req.with)
                /\ Permits(Blanket(Visited(i)), Req.to, Req.with) )
              => Dec.result = Ok(TRUE)
        /\ C2_Example

\* The trailing-slash rule alone allowed a request two segments below its
\* node.
C2_Witness ==
    /\ decision # None
    /\ Len(Dec.walk) >= 1
    /\ Len(Segs) = Len(Dec.walk) + 2
    /\ ~Permits(Visited(Len(Dec.walk)).attributes, Req.to, Req.with)
    /\ Permits(Blanket(Visited(Len(Dec.walk))), Req.to, Req.with)
    /\ Dec.result = Ok(TRUE)

\* "/x" with (list create) and "/x/" with (list read) are the resources:
\* Create on "/x" is allowed, Read on "/x" is denied.
C3_Example ==
    ( /\ root = Built(<<Resource(<<"/", "x">>, ListOf(<<s_create>>)),
                        Resource(<<"/", "x", "/">>, ListOf(<<s_read>>))>>)
      /\ Req.path = <<"/", "x">>
      /\ Req.with = <<>> )
    => /\ Req.to = "Create" => Dec.result = Ok(TRUE)
       /\ Req.to = "Read" => Dec.result = Ok(FALSE)

\* C3 as stated: a request for exactly the path of a node x that has a
\* trailing-slash rule returns Ok(false) when no own rule of a node on
\* root..x and no trailing-slash rule of a proper ancestor of x allows the
\* operation; and the example.
C3_ExactPathDenied ==
    decision # None =>
        /\ ( /\ HasNode(root, Segs)
             /\ Blanket(NodeAt(root, Segs)).access_rule.some
             /\ \A j \in 0..Len(Segs) :
                   ~Permits(NodeAt(root, SubSeq(Segs, 1, j)).attributes,
                            Req.to, Req.with)
             /\ \A j \in 0..(Len(Segs) - 1) :
                   ~Permits(Blanket(NodeAt(root, SubSeq(Segs, 1, j))),
                            Req.to, Req.with) )
           => Dec.result = Ok(FALSE)
        /\ C3_Example

\* C3 amended: when the walk arrives at a node x with the path exhausted and
\* the own rule of x evaluates, without failing, to a permission without
\* the operation's bit, the call returns Ok(false), whatever the
\* trailing-slash rule of x allows; and the example.
C3_ExactPathOnArrival ==
    decision # None =>
        /\ ( /\ Len(Dec.walk) = Len(Segs)
             /\ Blanket(Visited(Len(Dec.walk))).access_rule.some
             /\ ~Fails(Visited(Len(Dec.walk)).attributes, Req.with)
             /\ ~Permits(Visited(Len(Dec.walk)).attributes, Req.to, Req.with) )
           => Dec.result = Ok(FALSE)
        /\ C3_Example

\* A request for exactly the path of x was denied although the
\* trailing-slash rule of x allows the operation.
C3_Witness ==
    /\ decision # None
    /\ Len(Dec.walk) = Len(Segs)
    /\ Len(Dec.walk) >= 1
    /\ Permits(Blanket(Visited(Len(Dec.walk))), Req.to, Req.with)
    /\ Dec.result = Ok(FALSE)

\* The walk arrived at the i-th node and popped a segment there: the node's
\* own rule neither failed nor allowed the operation.
Popped(i) ==
    /\ i \in 0..Len(Dec.walk)
    /\ i < Len(Segs)
    /\ ~Fails(Visited(i).attributes, Req.with)
    /\ ~Permits(Visited(i).attributes, Req.to, Req.with)

\* The walk reached the selection of the child at the i-th node, which has a
\* parametric child: neither the node's own rule nor its trailing-slash
\* rule failed or allowed the operation.
ParamStep(i) ==
    /\ Popped(i)
    /\ Visited(i).special_child_name.some
    /\ ~Fails(Blanket(Visited(i)), Req.with)
    /\ ~Permits(Blanket(Visited(i)), Req.to, Req.with)

\* The attribute of the parametric child of the i-th node, its binding in
\* the context, and the scalar the popped segment parses to.
Attr(i) == Visited(i).special_child_name.v

Bound(i) == find(Req.with, Attr(i))

Lit(i) == from_literal(Segs[i + 1]).v

\* C4: at a parametric step with the attribute bound to a value of the
\* variant the segment parses to: if the two scalars are equal the walk
\* goes on in the child named like the attribute and the result is that
\* child's decision on the rest of the path; if not, the call returns
\* Ok(false) there.
C4_ParametricMatch ==
    decision # None =>
        \A i \in 0..Len(Dec.walk) :
            ( /\ ParamStep(i)
              /\ Bound(i).some
              /\ IsScalar(Lit(i))
              /\ Bound(i).v.tag = Lit(i).tag )
            => IF RuleEq(Bound(i).v, Lit(i))
               THEN /\ Len(Dec.walk) > i
                    /\ Dec.walk[i + 1] = Attr(i)
                    /\ Attr(i) \in DOMAIN Visited(i).children
                    /\ LET child == is_allowed(Visited(i).children[Attr(i)],
                                               Req.to, RestAfter(i + 1),
                                               Req.with)
                       IN Dec.result = child.result /\ Dec.on = child.on
               ELSE /\ Len(Dec.walk) = i
                    /\ Dec.result = Ok(FALSE)

\* The segment "01" matched the attribute value Integer(1), the walk went
\* on in the child named like the attribute, and that child allowed.
C4_Witness ==
    /\ decision # None
    /\ \E i \in 0..(Len(Dec.walk) - 1) :
          /\ ParamStep(i)
          /\ Segs[i + 1] = <<"0", "1">>
          /\ Bound(i) = Some(Integer(1))
          /\ Dec.walk[i + 1] = Attr(i)
    /\ Dec.result = Ok(TRUE)

\* C5: at a parametric step with the attribute unbound, the call returns
\* Err(KeyNotInContext(attribute)), whatever the segment is.
C5_UnboundAttribute ==
    decision # None =>
        \A i \in 0..Len(Dec.walk) :
            (ParamStep(i) /\ ~Bound(i).some)
            => Dec.result = Err(KeyNotInContext(Attr(i)))

\* A parametric step with the attribute unbound and a segment that is not
\* the empty string.
C5_Witness ==
    /\ decision # None
    /\ \E i \in 0..Len(Dec.walk) :
          ParamStep(i) /\ ~Bound(i).some /\ Segs[i + 1] # <<>>
    /\ ~Dec.result.ok

\* "/p/:a" is the only resource and a is bound to Integer(1): a request for
\* "/p/" fails with CannotCompare(Integer(1), String("")).
C6_Example ==
    ( /\ root = Built(<<Resource(<<"/", "p", "/", ":", "a">>,
                                 ListOf(<<s_all>>))>>)
      /\ Req.path = <<"/", "p", "/">>
      /\ Req.with = <<Binding(<<"a">>, <<"1">>)>> )
    => Dec.result = Err(CannotCompare(Integer(1), String(<<>>)))

\* C6 as stated: when the segment popped at a node with a parametric child
\* parses to a variant other than that of the attribute's value, the call
\* returns Err(CannotCompare(value, parsed segment)); and the example.
C6_TypeMismatch ==
    decision # None =>
        /\ \A i \in 0..Len(Dec.walk) :
              ( /\ Popped(i)
                /\ Visited(i).special_child_name.some
                /\ Bound(i).some
                /\ Bound(i).v.tag # Lit(i).tag )
              => Dec.result = Err(CannotCompare(Bound(i).v, Lit(i)))
        /\ C6_Example

\* C6 amended: the same at a parametric step, that is when in addition the
\* node's trailing-slash rule, if any, neither failed nor allowed the
\* operation; and the example.
C6_TypeMismatchAtStep ==
    decision # None =>
        /\ \A i \in 0..Len(Dec.walk) :
              ( /\ ParamStep(i)
                /\ Bound(i).some
                /\ Bound(i).v.tag # Lit(i).tag )
              => Dec.result = Err(CannotCompare(Bound(i).v, Lit(i)))
        /\ C6_Example

\* A parametric step at a node that has a trailing-slash rule, with a
\* String segment against an Integer value.
C6_Witness ==
    /\ decision # None
    /\ \E i \in 0..Len(Dec.walk) :
          /\ ParamStep(i)
          /\ Blanket(Visited(i)).access_rule.some
          /\ Bound(i) = Some(Integer(1))
          /\ Lit(i).tag = "String"
    /\ ~Dec.result.ok

(***************************************************************************)
(* What the properties of the conversions are stated with.                 *)
(***************************************************************************)
\* The value the rule evaluated to.
Val == evaluated.v.v

\* A tuple whose items are all Str.
StrTuple(v) ==
    /\ v.tag = "Tuple"
    /\ \A i \in 1..Len(v.items) : v.items[i].tag = "String"

HasAll(v) == \E i \in 1..Len(v.items) : v.items[i] = String(s_all)

ValidName(item) == item.tag = "String" /\ Operation_from_str(item.s).ok

\* Not a tuple, or an item that is no Str, or no "all" and an item that is
\* none of create/read/update/delete/list.
Malformed(v) ==
    \/ v.tag # "Tuple"
    \/ \E i \in 1..Len(v.items) : v.items[i].tag # "String"
    \/ /\ ~HasAll(v)
       /\ \E i \in 1..Len(v.items) : ~ValidName(v.items[i])

\* The bit of op if the tuple names it.
NamedBit(v, op) ==
    IF \E i \in 1..Len(v.items) : Operation_from_str(v.items[i].s) = Ok(op)
    THEN into(op) ELSE 0

NamedBits(v) ==
    NamedBit(v, "Create") + NamedBit(v, "Read") + NamedBit(v, "Update")
    + NamedBit(v, "Delete") + NamedBit(v, "List")

InsertAt(items, i, x) ==
    SubSeq(items, 1, i) \o <<x>> \o SubSeq(items, i + 1, Len(items))

OperationNames == {s_create, s_read, s_update, s_delete, s_list, s_all}

\* p has every bit of q.
Contains(p, q) == BitAnd(p, q) = q

\* Built only from list forms and scalar literals, no attribute reference.
RECURSIVE ListOnly(_)
ListOnly(r) ==
    CASE r.tag = "Tuple" ->
           /\ r.items # <<>>
           /\ r.items[1].tag = "List"
           /\ \A i \in 2..Len(r.items) : ListOnly(r.items[i])
      [] r.tag = "String" -> ~starts_with(r.s, "$")
      [] OTHER -> IsScalar(r)

\* C7: Permission::from of an evaluated tuple of Str is 0b11111 whenever some
\* item is "all", wherever it stands and whatever the other strings are.
C7_AllGrantsEverything ==
    (permission # None /\ StrTuple(Val) /\ HasAll(Val)) => permission.v = 31

\* C8: Permission::from is 0 for a value that is no tuple, for a tuple with
\* an item that is no Str, and for a tuple without "all" that has an unknown
\* name; for a tuple of valid operation names it is the OR of their bits; and
\* is_allowed answers Ok(false) for a rule of such a malformed shape.
C8_DenyByDefault ==
    /\ permission # None =>
         /\ Malformed(Val) => permission.v = 0
         /\ (StrTuple(Val) /\ \A i \in 1..Len(Val.items) :
                                  ValidName(Val.items[i]))
               => permission.v = NamedBits(Val)
    /\ (decision # None /\ evaluated # None /\ Malformed(Val))
         => decision.v.result = Ok(FALSE)

\* C9: inserting an operation name anywhere into an evaluated tuple of Str
\* never removes a bit of its permission, and the permission of a tuple with
\* "all" in it contains every bit of every permission.
C9_Monotone ==
    (permission # None /\ StrTuple(Val)) =>
        /\ \A n \in OperationNames : \A i \in 0..Len(Val.items) :
              Contains(Permission_from(Tuple(InsertAt(Val.items, i,
                                                      String(n)))),
                       permission.v)
        /\ HasAll(Val) => \A other \in 0..31 : Contains(permission.v, other)

Src == source.v

RuleParsed == parsed # None /\ parsed.v.of = "Rule"

\* The number of forms open after the first i characters of t.
RECURSIVE Depth(_, _)
Depth(t, i) ==
    IF i = 0 THEN 0
    ELSE Depth(t, i - 1)
         + (IF t[i] = "(" THEN 1 ELSE IF t[i] = ")" THEN 0 - 1 ELSE 0)

\* One form "( ... )": the first parenthesis is closed by the last character.
WellFormed(t) ==
    /\ Len(t) >= 2
    /\ t[1] = "("
    /\ \A i \in 1..(Len(t) - 1) : Depth(t, i) >= 1
    /\ Depth(t, Len(t)) = 0

\* C11: a well-formed form with its outermost closing parenthesis removed
\* parses to the same tree as the form itself.
C11_MissingFinalParen ==
    (RuleParsed /\ WellFormed(Append(Src, ")"))) =>
        /\ parsed.v.result.ok
        /\ parsed.v.result = Rule_from_str(Append(Src, ")"))

\* C12: the empty text, a text with a ")" that closes nothing, and a text
\* that leaves a form other than the outermost one open are rejected with
\* the parse error carrying the text.
C12_ParserRejects ==
    (RuleParsed /\ \/ Src = <<>>
                   \/ \E i \in 1..Len(Src) : Depth(Src, i) < 0
                   \/ Depth(Src, Len(Src)) >= 2) =>
        parsed.v.result = Err(CannotParse(Src))

(***************************************************************************)
(* What the properties of the build are stated with.                       *)
(***************************************************************************)
\* The entry of the last insert, its path, and the root it was called on.
Last == order[Len(order)]

LastPath == ResourcePath_from_str(Last.path)

Before == Built(SubSeq(order, 1, Len(order) - 1))

\* The segments of the last path in the order they are popped, and the keys
\* of the children they name.
Popping == rev(LastPath.v)

Key(segment) == IF starts_with(segment, ":") THEN Tail(segment) ELSE segment

Keys == [i \in 1..Len(Popping) |-> Key(Popping[i])]

\* An insert was made, with a path that is one.
Stepped == order # <<>> /\ LastPath.ok

\* Some parametric segment is popped at a node that has a parametric child.
RECURSIVE Collides(_, _)
Collides(self, segments) ==
    /\ segments # <<>>
    /\ \/ starts_with(Head(segments), ":") /\ self.special_child_name.some
       \/ /\ Key(Head(segments)) \in DOMAIN self.children
          /\ Collides(self.children[Key(Head(segments))], Tail(segments))

\* The path of the last insert ends at a node that held an access_rule.
EndsAtRule ==
    /\ HasNode(Before, Keys)
    /\ NodeAt(Before, Keys).attributes.access_rule.some

RECURSIVE CollisionName(_, _)
CollisionName(self, segments) ==
    IF starts_with(Head(segments), ":") /\ self.special_child_name.some
    THEN self.special_child_name.v
    ELSE CollisionName(self.children[Key(Head(segments))], Tail(segments))

\* The entries whose insert returned Ok.
Accepted ==
    IF inserted # None /\ ~inserted.v.ok
    THEN SubSeq(order, 1, Len(order) - 1)
    ELSE order

SegmentsOf(e) == rev(ResourcePath_from_str(e.path).v)

KeysOf(segments) == [i \in 1..Len(segments) |-> Key(segments[i])]

\* Two accepted entries that have a parametric segment below the same node
\* name the same attribute there.
OneParametricChild ==
    \A n1, n2 \in 1..Len(Accepted) :
        LET s1 == SegmentsOf(Accepted[n1])
            s2 == SegmentsOf(Accepted[n2])
        IN \A i \in 1..Len(s1) :
              (/\ i <= Len(s2)
               /\ SubSeq(KeysOf(s1), 1, i - 1) = SubSeq(KeysOf(s2), 1, i - 1)
               /\ starts_with(s1[i], ":")
               /\ starts_with(s2[i], ":"))
                  => /\ s1[i] = s2[i]
                     /\ NodeAt(root, SubSeq(KeysOf(s1), 1, i - 1))
                           .special_child_name = Some(Key(s1[i]))

\* C14: an insert with a parametric segment at a node that has a parametric
\* child already returns AmbiguousResource(full_path, a), a being the name
\* of that child; so the accepted entries give every node at most one
\* parametric child.
C14_AmbiguityDetected ==
    /\ (Stepped /\ Collides(Before, Popping)) =>
          inserted.v = Err(AmbiguousResource(Last.path,
                                             CollisionName(Before, Popping)))
    /\ OneParametricChild

\* "/p/:b" was refused because "/p/:a" had been inserted.
C14_Witness ==
    /\ Stepped
    /\ Collides(Before, Popping)
    /\ \E i \in 1..Len(Popping) :
          /\ starts_with(Popping[i], ":")
          /\ Key(Popping[i]) # CollisionName(Before, Popping)
    /\ inserted.v = Err(AmbiguousResource(Last.path,
                                          CollisionName(Before, Popping)))

\* The orders a map can yield its entries in.
Orders(c) == { o \in [1..Cardinality(c) -> c] : Range(o) = c }

\* try_from has returned.
Finished ==
    \/ Len(order) = Cardinality(config)
    \/ inserted # None /\ ~inserted.v.ok

\* C15: the build of a configuration has the same outcome whatever the order
\* of its entries: it fails in every order, or it yields the same hierarchy
\* in every order.
C15_OrderIndependent ==
    (config # {} /\ Finished) =>
        \A o \in Orders(config) :
            LET other == try_from(new(<<>>, default), o) IN
            IF inserted.v.ok THEN other = Ok(root) ELSE ~other.ok

(***************************************************************************)
(* What the properties of decisions in parallel are stated with.           *)
(***************************************************************************)
\* What the call of thread t returns when it runs alone on the hierarchy
\* that was built.
Alone(t) ==
    is_allowed(Built(order), calls[t].req.to,
               ResourcePath_from_str(calls[t].req.path).v,
               calls[t].req.with)

\* C16: calls of is_allowed that interleave on one hierarchy return what
\* they return alone; the hierarchy and the contexts stay as they were, and
\* a call has popped from its own path only.
C16_ConcurrentDecisions ==
    /\ calls # <<>> => root = Built(order)
    /\ \A t \in DOMAIN calls :
          calls[t].pc # "idle" =>
             /\ calls[t].with = calls[t].req.with
             /\ \E n \in 0..Len(ResourcePath_from_str(calls[t].req.path).v) :
                   calls[t].on
                     = SubSeq(ResourcePath_from_str(calls[t].req.path).v,
                              1, n)
             /\ calls[t].pc = "done" =>
                   /\ calls[t].result.v = Alone(t).result
                   /\ calls[t].on = Alone(t).on

\* Two calls have returned, one of them with an error, and both had to pop
\* from their paths.
C16_Witness ==
    /\ calls # <<>>
    /\ \E t1, t2 \in DOMAIN calls :
          /\ t1 # t2
          /\ calls[t1].pc = "done"
          /\ calls[t2].pc = "done"
          /\ calls[t1].result.v = Ok(TRUE)
          /\ ~calls[t2].result.v.ok
          /\ calls[t1].at # <<>>
          /\ calls[t2].at # <<>>

(***************************************************************************)
(* What the properties of paths and contexts are stated with.              *)
(***************************************************************************)
PathParsed == parsed # None /\ parsed.v.of = "ResourcePath"

\* s with every run of one character collapsed to that character.
RECURSIVE Collapsed(_)
Collapsed(s) ==
    IF Len(s) < 2 THEN s
    ELSE IF s[1] = s[2] THEN Collapsed(Tail(s))
    ELSE <<s[1]>> \o Collapsed(Tail(s))

\* The segments with c between them.
RECURSIVE Joined(_, _)
Joined(segments, c) ==
    IF Len(segments) = 1 THEN segments[1]
    ELSE segments[1] \o <<c>> \o Joined(Tail(segments), c)

\* C17: a text that does not start with "/" is refused with FormatError of
\* the text; otherwise the segments are those of the text with its runs of
\* equal characters collapsed and its leading slash dropped, split at the
\* slashes, last segment first; "/" gives [""], "/a/b/" gives ["", "b", "a"],
\* and the normalized path normalizes to the same segments.
C17_PathNormalization ==
    PathParsed =>
        IF Src = <<>> \/ Src[1] # "/"
        THEN parsed.v.result = Err(FormatError(Src))
        ELSE /\ parsed.v.result.ok
             /\ LET segments == rev(parsed.v.result.v) IN
                /\ segments # <<>>
                /\ \A i \in 1..Len(segments) :
                      \A j \in 1..Len(segments[i]) : segments[i][j] # "/"
                /\ <<"/">> \o Joined(segments, "/") = Collapsed(Src)
                /\ ResourcePath_from_str(<<"/">> \o Joined(segments, "/"))
                     = parsed.v.result
             /\ Src = <<"/">> => parsed.v.result.v = << <<>> >>
             /\ Src = <<"/", "a", "/", "b", "/">> =>
                   parsed.v.result.v = << <<>>, <<"b">>, <<"a">> >>

\* "//aa//b" was normalized to the segments of "/a/b".
C17_Witness ==
    /\ PathParsed
    /\ Src = <<"/", "/", "a", "a", "/", "/", "b">>
    /\ parsed.v.result = Ok(<< <<"b">>, <<"a">> >>)

(***************************************************************************)
(* What the properties of evaluation are stated with.                      *)
(***************************************************************************)
Evaluated == evaluated # None

\* A reference $k with one "$" and a key.
IsRef(r) ==
    /\ r.tag = "String"
    /\ Len(r.s) >= 2
    /\ r.s[1] = "$"
    /\ r.s[2] # "$"

\* The value of the first pair of ctx with key k, Str("") when there is none.
FirstBound(ctx, k) ==
    LET at == { i \in 1..Len(ctx) : ctx[i].k = k } IN
    IF at = {} THEN String(<<>>)
    ELSE ctx[CHOOSE i \in at : \A j \in at : i <= j].v

\* C18: in a list form every $k evaluates to the value of the first pair
\* with key k, unchanged, and to Str("") without error when k is unbound;
\* (eq $k lit) with k unbound and lit a string literal is Bool(false).
C18_AttributeLookup ==
    Evaluated =>
        /\ IsRef(rule) =>
              evaluated.v = Ok(FirstBound(context, Tail(rule.s)))
        /\ (rule.tag = "Tuple" /\ Len(rule.items) >= 2
            /\ rule.items[1].tag = "List"
            /\ \A i \in 2..Len(rule.items) : IsRef(rule.items[i])) =>
              /\ evaluated.v.ok
              /\ Len(Val.items) = Len(rule.items) - 1
              /\ \A i \in 2..Len(rule.items) :
                    Val.items[i - 1]
                      = FirstBound(context, Tail(rule.items[i].s))
        /\ (rule.tag = "Tuple" /\ Len(rule.items) = 3
            /\ rule.items[1].tag = "Eq"
            /\ IsRef(rule.items[2])
            /\ (\A i \in 1..Len(context) :
                   context[i].k # Tail(rule.items[2].s))
            /\ rule.items[3].tag = "String"
            /\ rule.items[3].s # <<>>
            /\ rule.items[3].s[1] # "$") =>
              evaluated.v = Ok(Bool(FALSE))

\* (list $a $b) under "a:x,a:1": the first pair of a, and Str("") for b.
C18_Witness ==
    /\ Evaluated
    /\ rule = ListForm(<<ref_a, ref_b>>)
    /\ Len(context) = 2
    /\ context[1].k = context[2].k
    /\ context[1].v # context[2].v
    /\ evaluated.v = Ok(Tuple(<<context[1].v, String(<<>>)>>))

\* The first of the results that is an error, None when all succeed.
RECURSIVE FirstError(_)
FirstError(results) ==
    IF results = <<>> THEN None
    ELSE IF ~Head(results).ok THEN Some(Head(results))
    ELSE FirstError(Tail(results))

\* The results of the operands of a form, in the order of the text.
Operands(form, ctx) ==
    [i \in 1..(Len(form.items) - 1) |-> eval(form.items[i + 1], ctx)]

\* An if with three operands, an and or an or with two.
Operator(form) ==
    /\ form.tag = "Tuple"
    /\ form.items # <<>>
    /\ \/ form.items[1].tag = "If" /\ Len(form.items) = 4
       \/ form.items[1].tag \in {"And", "Or"} /\ Len(form.items) = 3

\* C19: if, and, or do not short-circuit: the error of any operand, the
\* first in the order of the text, is the result of the whole form, also
\* when it is the branch that is not selected or the right operand of an
\* and/or whose left operand determines the value.
C19_NoShortCircuit ==
    (Evaluated /\ Operator(rule)) =>
        LET failed == FirstError(Operands(rule, context)) IN
        failed.some => evaluated.v = failed.v

\* (if true (list all) (eq 1 x)): the branch that is not selected fails and
\* so does the form.
C19_Witness ==
    /\ Evaluated
    /\ Operator(rule)
    /\ rule.items[1].tag = "If"
    /\ eval(rule.items[2], context) = Ok(Bool(TRUE))
    /\ eval(rule.items[3], context).ok
    /\ ~eval(rule.items[4], context).ok
    /\ evaluated.v = eval(rule.items[4], context)

(***************************************************************************)
(* What the properties of context parsing are stated with.                 *)
(***************************************************************************)
ContextParsed == parsed # None /\ parsed.v.of = "Context"

\* The pieces of s between commas that are not empty, in order.
Pieces(s) == SelectSeq(split(s, ","), LAMBDA piece : piece # <<>>)

\* A piece cut at its first ':' only: the key before it, the value of
\* everything after it.
CutAtFirst(piece) ==
    LET i == IndexOf(piece, {":"}) IN
    [k |-> SubSeq(piece, 1, i - 1),
     v |-> from_literal(SubSeq(piece, i + 1, Len(piece))).v]

\* C20: Context::from_str splits on ',', skips the empty pieces and cuts
\* each other piece at its first ':' only, binding the key before it to
\* from_literal of everything after it; the pairs keep the order of the
\* input and the empty input gives the empty context.
C20_ContextParsing ==
    (ContextParsed
     /\ \A i \in 1..Len(Pieces(Src)) : IndexOf(Pieces(Src)[i], {":"}) # 0) =>
        parsed.v.result
          = Ok([i \in 1..Len(Pieces(Src)) |-> CutAtFirst(Pieces(Src)[i])])

(***************************************************************************)
(* What the properties of membership are stated with.                      *)
(***************************************************************************)
InForm == Evaluated /\ rule.tag = "Tuple" /\ rule.items # <<>>
          /\ rule.items[1].tag = "In"

\* The values of the two operands of an in form of arity 3.
Left == eval(rule.items[2], context)

Right == eval(rule.items[3], context)

\* The same variant and an equal payload, for scalars.
SameScalar(a, b) ==
    /\ a.tag = b.tag
    /\ IF a.tag = "Float" THEN F32Eq(a.f, b.f) ELSE a = b

\* Some item of the tuple is the same scalar as x.
Member(x, tuple) ==
    \E i \in 1..Len(tuple.items) :
        IsScalar(tuple.items[i]) /\ SameScalar(tuple.items[i], x)

\* C21, as stated: when the right operand evaluates to a Tuple the result is
\* Bool(true) iff some item is of the variant of and equal to the left value,
\* for every left value, and InvalidIn is raised exactly when the arity is
\* wrong or the right operand does not evaluate to a Tuple.
C21_MembershipAnyLeft ==
    InForm =>
        /\ (Len(rule.items) = 3 /\ Left.ok /\ Right.ok
            /\ Right.v.tag = "Tuple") =>
              evaluated.v = Ok(Bool(IsScalar(Left.v) /\ Member(Left.v, Right.v)))
        /\ evaluated.v = Err(InvalidInStatement(rule)) <=>
              \/ Len(rule.items) # 3
              \/ Left.ok /\ Right.ok /\ Right.v.tag # "Tuple"

\* C21, amended: when the left operand evaluates to a scalar and the right
\* one to a Tuple the result is Bool(true) iff some item is of the variant
\* of and equal to the left value; InvalidIn is raised exactly when the
\* arity is wrong or, both operands having evaluated, the right value is no
\* Tuple or the left value is a Tuple; the error of an operand is the result.
C21_MembershipOfScalar ==
    InForm =>
        IF Len(rule.items) # 3 THEN evaluated.v = Err(InvalidInStatement(rule))
        ELSE IF ~Left.ok THEN evaluated.v = Left
        ELSE IF ~Right.ok THEN evaluated.v = Right
        ELSE IF IsScalar(Left.v) /\ Right.v.tag = "Tuple"
        THEN evaluated.v = Ok(Bool(Member(Left.v, Right.v)))
        ELSE /\ evaluated.v = Err(InvalidInStatement(rule))
             /\ Right.v.tag # "Tuple" \/ Left.v.tag = "Tuple"

\* (in john (list 10 john)): the second item is the member.
C21_Witness ==
    /\ InForm
    /\ Len(rule.items) = 3
    /\ Left.ok /\ Right.ok
    /\ Left.v.tag = "String"
    /\ Right.v.tag = "Tuple"
    /\ Len(Right.v.items) = 2
    /\ Right.v.items[1].tag = "Integer"
    /\ Right.v.items[2] = Left.v
    /\ evaluated.v = Ok(Bool(TRUE))

(***************************************************************************)
(* What the properties of parametric segments on insert are stated with.   *)
(***************************************************************************)
\* The parametric segment that is popped at the first node where the
\* segments collide with a parametric child.
RECURSIVE CollidingSegment(_, _)
CollidingSegment(self, segments) ==
    IF starts_with(Head(segments), ":") /\ self.special_child_name.some
    THEN Head(segments)
    ELSE CollidingSegment(self.children[Key(Head(segments))], Tail(segments))

\* The last insert returned AmbiguousResource.
Ambiguous == Stepped /\ ~inserted.v.ok
             /\ inserted.v.e.kind = "AmbiguousResource"

\* C22: insert fails with AmbiguousResource only when the node has a
\* parametric child of a different name already; an insert whose parametric
\* segments meet parametric children of the same name only, and whose path
\* ends at no node that holds an access_rule, succeeds and stores its
\* attributes below the one child keyed by that name.
C22_SameNameReuse ==
    Stepped =>
        /\ Ambiguous =>
              /\ Collides(Before, Popping)
              /\ Key(CollidingSegment(Before, Popping))
                    # CollisionName(Before, Popping)
        /\ (/\ Collides(Before, Popping)
            /\ Key(CollidingSegment(Before, Popping))
                  = CollisionName(Before, Popping)
            /\ ~EndsAtRule) =>
              /\ inserted.v = Ok("()")
              /\ HasNode(root, Keys)
              /\ NodeAt(root, Keys).attributes = Last.attributes

(***************************************************************************)
(* What the structural properties of the hierarchy are stated with.        *)
(***************************************************************************)
\* Every node below and including self has its parametric child, if it has
\* a parametric name, and every child bears the key it is stored under.
RECURSIVE WellKeyed(_)
WellKeyed(self) ==
    /\ self.special_child_name.some =>
          self.special_child_name.v \in DOMAIN self.children
    /\ \A k \in DOMAIN self.children :
          /\ self.children[k].name = k
          /\ WellKeyed(self.children[k])

\* C23: after any sequence of inserts, successful or failed, a node whose
\* parametric name is Some(n) has a child keyed n, and the name of every
\* child is the key it is stored under.
C23_WellKeyed == WellKeyed(root)

\* "/p/:a" was refused as a duplicate of "/p/a" and has left the parametric
\* name a at p, whose child a is the literal one.
C23_Witness ==
    /\ inserted # None
    /\ inserted.v = Err(DuplicateResource(<<"/", "p", "/", ":", "a">>))
    /\ root.children[<<"p">>].special_child_name = Some(<<"a">>)
    /\ root.children[<<"p">>].children[<<"a">>].name = <<"a">>
    /\ ninserts = MaxInserts

\* The last insert returned an error of the hierarchy.
Refused == Stepped /\ ~inserted.v.ok
           /\ inserted.v.e.kind \in {"DuplicateResource", "AmbiguousResource"}

\* C25: an insert that returns DuplicateResource or AmbiguousResource leaves
\* the hierarchy exactly as it was before the call.
C25_FailedInsertAtomic == Refused => root = Before

(***************************************************************************)
(* What the properties of a parametric child and its siblings are stated   *)
(* with.                                                                   *)
(***************************************************************************)
\* The hierarchy without the literal siblings of its parametric children:
\* a node with a parametric name keeps the child of that name and the
\* trailing-slash child only.
RECURSIVE Shadowed(_)
Shadowed(self) ==
    LET kept == IF self.special_child_name.some
                THEN DOMAIN self.children
                       \cap {self.special_child_name.v, <<>>}
                ELSE DOMAIN self.children
    IN [self EXCEPT !.children = [k \in kept |-> Shadowed(self.children[k])]]

\* C26: from a node with the parametric name a the walk descends into the
\* child keyed a only, and only when the popped segment equals the value of
\* a in the context; the other literal children of such a node, the
\* trailing-slash child apart, contribute to no decision: every call
\* returns what it returns on the hierarchy without them.
C26_ParametricShadows ==
    decision # None =>
        /\ \A i \in 0..(Len(Dec.walk) - 1) :
              Visited(i).special_child_name.some =>
                  /\ Dec.walk[i + 1] = Attr(i)
                  /\ Bound(i).some
                  /\ SameScalar(Bound(i).v, Lit(i))
        /\ is_allowed(Shadowed(root), Req.to,
                      ResourcePath_from_str(Req.path).v, Req.with).result
             = Dec.result

\* "/p/1" allows Delete and p has the parametric name a: Delete on "/p/1"
\* with a bound to 1 goes into the child a and is denied.
C26_Witness ==
    /\ decision # None
    /\ Req.to = "Delete"
    /\ Segs = <<<<"p">>, <<"1">>>>
    /\ Dec.walk = <<<<"p">>, <<"a">>>>
    /\ Visited(1).special_child_name = Some(<<"a">>)
    /\ <<"1">> \in DOMAIN Visited(1).children
    /\ Permits(Visited(1).children[<<"1">>].attributes, Req.to, Req.with)
    /\ Dec.result = Ok(FALSE)

(***************************************************************************)
(* What the property of grants below a resource is stated with.            *)
(***************************************************************************)
\* Segment sequences a request path is continued with.
Continuations ==
    { <<<<>>>>,
      <<<<"s">>>>,
      <<<<"y">>>>,
      <<<<"1">>>>,
      <<<<"x">>>>,
      <<<<"y">>, <<"t">>>>,
      <<<<"a">>, <<>>>> }

\* What the call returns for the request with its path continued by q.
Continued(q) ==
    is_allowed(root, Req.to, rev(Segs \o q), Req.with).result

\* C24: when a request on the segments p, not ending with the empty
\* segment, is allowed, the request on p followed by q is allowed as well,
\* for the same operation and context and every non-empty q.
C24_GrantsInherited ==
    (/\ decision # None
     /\ Dec.result = Ok(TRUE)
     /\ Segs[Len(Segs)] # <<>>) =>
        \A q \in Continuations : Continued(q) = Ok(TRUE)

\* Create on "/x" is allowed by the rule of "/x"; "/x/y" is defined below
\* it with a rule that does not allow Create, and Create on "/x/y" is
\* allowed all the same.
C24_Witness ==
    /\ decision # None
    /\ Dec.result = Ok(TRUE)
    /\ Segs = <<<<"x">>>>
    /\ Req.to = "Create"
    /\ HasNode(root, <<<<"x">>, <<"y">>>>)
    /\ NodeAt(root, <<<<"x">>, <<"y">>>>).attributes.access_rule.some
    /\ ~Permits(NodeAt(root, <<<<"x">>, <<"y">>>>).attributes,
                Req.to, Req.with)
    /\ Continued(<<<<"y">>>>) = Ok(TRUE)

(***************************************************************************)
(* What the properties of the root are stated with.                        *)
(***************************************************************************)
\* The attributes of a resource "/".
RootAttributes == ResourceAttributes(Some(ListOf(<<s_list>>)), None)

\* What root.insert("/", ..) leaves behind.
RootInserted ==
    insert(root, <<"/">>, ResourcePath_from_str(<<"/">>).v, RootAttributes)

\* C27: after any sequence of inserts the root has no access_rule and no
\* description; the resource "/" is stored in the child of the root keyed
\* "", and the rule of that child is applied to every request, whatever its
\* path: a request it allows is allowed, and its error is the result.
C27_RootHoldsNoRule ==
    /\ root.attributes = default
    /\ RootInserted.self.attributes = default
    /\ RootInserted.result.ok =>
          /\ <<>> \in DOMAIN RootInserted.self.children
          /\ RootInserted.self.children[<<>>].attributes = RootAttributes
    /\ decision # None =>
          /\ Permits(Blanket(root), Req.to, Req.with) =>
                Dec.result = Ok(TRUE) /\ Dec.walk = <<>>
          /\ Fails(Blanket(root), Req.with) =>
                Dec.result = eval(Blanket(root).access_rule.v, Req.with)

\* "/" with (list list) is the only resource that was inserted, and List on
\* "/x/s", for which nothing is defined, is allowed at the root.
C27_Witness ==
    /\ decision # None
    /\ root.attributes = default
    /\ DOMAIN root.children = {<<>>}
    /\ Blanket(root) = RootAttributes
    /\ Segs = <<<<"x">>, <<"s">>>>
    /\ Req.to = "List"
    /\ Dec.result = Ok(TRUE)
    /\ Dec.walk = <<>>

====
